---- MODULE Spec2Model ----
(***************************************************************************)
(* A model of C-ChessEngine: the position (BoardState), the move machine   *)
(* of game.c (makeMove / undoMove over the process-wide history stack,     *)
(* isSquareAttacked / isKingInCheck), the move generator of ai.c and the   *)
(* root search.  Rows and columns are 0..7, row 0 is rank 8, column 0 is   *)
(* file a, as in structs.h.                                                *)
(***************************************************************************)
EXTENDS Integers, Sequences, FiniteSets, TLC

VARIABLES board, historyStack, boardFile

vars == <<board, historyStack, boardFile>>

(***************************************************************************)
(* structs.h: the enums and the move flags, with their C values.           *)
(***************************************************************************)
EMPTY == 0
PAWN == 1
KNIGHT == 2
BISHOP == 3
ROOK == 4
QUEEN == 5
KING == 6

WHITE == 0
BLACK == 1
NO_COLOR == 2

MOVE_NORMAL == 0
MOVE_PROMOTION == 1
MOVE_EN_PASSANT == 2
MOVE_CASTLE_KING == 3
MOVE_CASTLE_QUEEN == 4

MAX_HISTORY == 4096

(***************************************************************************)
(* Bounds of the model.                                                    *)
(***************************************************************************)
\* the deepest line of applied moves explored from a scenario position
MaxPly == 2
\* the deepest line explored from the default starting position
MaxPlyStart == 5
MaxPlyRaid == 10
\* the files on which the driver of the opening lines moves pieces are
\* d .. d + WindowWidth
WindowWidth == 1
\* the depth findBestMove searches to: ai.c sets 6, a depth the model
\* checker cannot search at every state, and the model searches the same
\* tree cut at this depth
SEARCH_DEPTH == 2
\* the deepest line of moves explored by the game loop
MaxPlyGame == 4
\* the games with board.txt are played up to this fullmove number, from
\* positions of at most this many pieces
MaxFullmove == 3
MaxPieces == 6

\* the plies of the long game explored before its history stack is full
LongGameWindow == 12

Position(r, c) == [row |-> r, col |-> c]
Piece(t, col) == [type |-> t, color |-> col]
Move(from, to, promotion, flag) ==
    [from |-> from, to |-> to, promotion |-> promotion, flag |-> flag]
CastlingRights(wk, wq, bk, bq) == [wk |-> wk, wq |-> wq, bk |-> bk, bq |-> bq]

NoPiece == Piece(EMPTY, NO_COLOR)
NoSquare == Position(-1, -1)

onBoard(r, c) == r >= 0 /\ r < 8 /\ c >= 0 /\ c < 8

\* board->squares[r][c] = p
SetSquare(sq, r, c, p) == [sq EXCEPT ![r][c] = p]

SeqToSet(s) == {s[i] : i \in 1..Len(s)}

opposite(color) == IF color = WHITE THEN BLACK ELSE WHITE

(***************************************************************************)
(* fileio.c: charToPiece, used by main() to set up the default position    *)
(* and by loadBoardFromFile for every board character.                     *)
(***************************************************************************)
UpperChars == {"P", "R", "N", "B", "Q", "K"}

charToPiece(ch) ==
    IF ch = "." \/ ch = " " THEN NoPiece
    ELSE LET color == IF ch \in UpperChars THEN WHITE ELSE BLACK
         IN  CASE ch \in {"p", "P"} -> Piece(PAWN, color)
               [] ch \in {"r", "R"} -> Piece(ROOK, color)
               [] ch \in {"n", "N"} -> Piece(KNIGHT, color)
               [] ch \in {"b", "B"} -> Piece(BISHOP, color)
               [] ch \in {"q", "Q"} -> Piece(QUEEN, color)
               [] ch \in {"k", "K"} -> Piece(KING, color)
               [] OTHER -> NoPiece

\* the 8 rows of 8 characters of a position text, top row (rank 8) first
squaresOf(rows) == [r \in 0..7 |-> [c \in 0..7 |-> charToPiece(rows[r + 1][c + 1])]]

BoardState(rows, player, castling, ep, half, full) ==
    [squares |-> squaresOf(rows), currentPlayer |-> player, castling |-> castling,
     enPassantTarget |-> ep, halfmoveClock |-> half, fullmoveNumber |-> full]

(***************************************************************************)
(* game.c: the history stack.                                              *)
(***************************************************************************)
\* On a full stack historyTop is set back to MAX_HISTORY - 1 and the record
\* is written at that index without historyTop being advanced: the record
\* that was on top is overwritten and the new one lies above the top.
pushHistory(hist, rec) ==
    IF Len(hist) < MAX_HISTORY
    THEN Append(hist, rec)
    ELSE SubSeq(hist, 1, MAX_HISTORY - 1)

clearEnPassant == NoSquare

(***************************************************************************)
(* game.c: makeMove.  S is the pair of the BoardState and the history      *)
(* stack, [board, hist]; the result is the pair after the call.            *)
(***************************************************************************)
makeMoveCastle(sq0, castling, move, moving) ==
    LET from == move.from
        to == move.to
        sq1 == SetSquare(SetSquare(sq0, to.row, to.col, moving), from.row, from.col, NoPiece)
        row == IF moving.color = WHITE THEN 7 ELSE 0
        sq2 == IF move.flag = MOVE_CASTLE_KING
               THEN SetSquare(SetSquare(sq1, row, 5, sq1[row][7]), row, 7, NoPiece)
               ELSE SetSquare(SetSquare(sq1, row, 3, sq1[row][0]), row, 0, NoPiece)
    IN  [squares |-> sq2,
         castling |-> IF moving.color = WHITE
                      THEN [castling EXCEPT !.wk = 0, !.wq = 0]
                      ELSE [castling EXCEPT !.bk = 0, !.bq = 0],
         enPassantTarget |-> clearEnPassant,
         resetHalfmove |-> TRUE,
         captured |-> sq0[to.row][to.col]]

\* a faulty variant of enPassantCapRow: the row ahead of the target square
enPassantCapRowAhead(prevPlayer, toRow) ==
    IF prevPlayer = WHITE THEN toRow - 1 ELSE toRow + 1

\* the row of the pawn an en passant move captures: behind the target square
enPassantCapRow(prevPlayer, toRow) ==
    IF prevPlayer = WHITE THEN toRow + 1 ELSE toRow - 1

makeMoveEnPassant(sq0, castling, move, moving, prevPlayer) ==
    LET from == move.from
        to == move.to
        sq1 == SetSquare(SetSquare(sq0, to.row, to.col, moving), from.row, from.col, NoPiece)
        capRow == enPassantCapRow(prevPlayer, to.row)
    IN  [squares |-> IF onBoard(capRow, to.col)
                     THEN SetSquare(sq1, capRow, to.col, NoPiece) ELSE sq1,
         castling |-> castling,
         enPassantTarget |-> clearEnPassant,
         resetHalfmove |-> TRUE,
         captured |-> IF onBoard(capRow, to.col)
                      THEN sq1[capRow][to.col] ELSE sq0[to.row][to.col]]

abs(x) == IF x < 0 THEN -x ELSE x

\* a normal move that leaves the moving piece on its square as well
makeMoveNormalStays(sq0, castling, move, moving) ==
    [squares |-> SetSquare(sq0, move.to.row, move.to.col, moving),
     castling |-> castling,
     enPassantTarget |-> clearEnPassant,
     resetHalfmove |-> sq0[move.to.row][move.to.col].type # EMPTY,
     captured |-> sq0[move.to.row][move.to.col]]

\* a faulty variant of makeMoveNormal that sets the en passant target behind
\* every pawn that moves
makeMoveNormalMarksPawn(sq0, castling, move, moving) ==
    LET from == move.from
        to == move.to
        captured == sq0[to.row][to.col]
        isPromotion == move.flag = MOVE_PROMOTION /\ moving.type = PAWN
        placed == IF isPromotion THEN Piece(move.promotion, moving.color) ELSE moving
    IN  [squares |-> SetSquare(SetSquare(sq0, to.row, to.col, placed),
                               from.row, from.col, NoPiece),
         castling |-> castling,
         enPassantTarget |-> IF moving.type = PAWN THEN from ELSE clearEnPassant,
         resetHalfmove |-> isPromotion
                           \/ (~isPromotion /\ captured.type # EMPTY)
                           \/ (moving.type = PAWN /\ abs(to.row - from.row) = 2),
         captured |-> captured]

makeMoveNormal(sq0, castling, move, moving) ==
    LET from == move.from
        to == move.to
        captured == sq0[to.row][to.col]
        isPromotion == move.flag = MOVE_PROMOTION /\ moving.type = PAWN
        placed == IF isPromotion THEN Piece(move.promotion, moving.color) ELSE moving
        sq1 == SetSquare(SetSquare(sq0, to.row, to.col, placed), from.row, from.col, NoPiece)
        doublePush == moving.type = PAWN /\ abs(to.row - from.row) = 2
    IN  [squares |-> sq1,
         castling |-> castling,
         enPassantTarget |-> IF doublePush
                             THEN Position((from.row + to.row) \div 2, from.col)
                             ELSE clearEnPassant,
         resetHalfmove |-> isPromotion
                           \/ (~isPromotion /\ captured.type # EMPTY)
                           \/ doublePush,
         captured |-> captured]

\* a faulty variant of kingMoveRights that sets the mover's rights
kingMoveRightsSet(castling, color) ==
    IF color = WHITE
    THEN [castling EXCEPT !.wk = 1, !.wq = 1]
    ELSE [castling EXCEPT !.bk = 1, !.bq = 1]

\* the rights after a king of the colour has moved
kingMoveRights(castling, color) ==
    IF color = WHITE
    THEN [castling EXCEPT !.wk = 0, !.wq = 0]
    ELSE [castling EXCEPT !.bk = 0, !.bq = 0]

\* step 2 of makeMove: rights lost by a rook captured on its corner, a rook
\* leaving its corner, a king moving
castlingAfterMove(castling, from, to, moving, captured) ==
    LET c1 == IF captured.type = ROOK
              THEN IF captured.color = WHITE
                   THEN [castling EXCEPT
                           !.wq = IF to.row = 7 /\ to.col = 0 THEN 0 ELSE @,
                           !.wk = IF to.row = 7 /\ to.col = 7 THEN 0 ELSE @]
                   ELSE [castling EXCEPT
                           !.bq = IF to.row = 0 /\ to.col = 0 THEN 0 ELSE @,
                           !.bk = IF to.row = 0 /\ to.col = 7 THEN 0 ELSE @]
              ELSE castling
        c2 == IF moving.type = ROOK
              THEN IF moving.color = WHITE
                   THEN [c1 EXCEPT
                           !.wq = IF from.row = 7 /\ from.col = 0 THEN 0 ELSE @,
                           !.wk = IF from.row = 7 /\ from.col = 7 THEN 0 ELSE @]
                   ELSE [c1 EXCEPT
                           !.bq = IF from.row = 0 /\ from.col = 0 THEN 0 ELSE @,
                           !.bk = IF from.row = 0 /\ from.col = 7 THEN 0 ELSE @]
              ELSE c1
    IN  IF moving.type = KING THEN kingMoveRights(c2, moving.color) ELSE c2

\* a faulty variant of halfmoveAfterMove that never resets the clock
halfmoveAlwaysCounted(resetHalfmove, halfmoveClock) == halfmoveClock + 1

\* steps 3 and 4 of makeMove: the clocks and the side to move
halfmoveAfterMove(resetHalfmove, halfmoveClock) ==
    IF resetHalfmove THEN 0 ELSE halfmoveClock + 1

\* a faulty variant of fullmoveAfterMove that counts every move
fullmoveAfterEveryMove(currentPlayer, fullmoveNumber) == fullmoveNumber + 1

fullmoveAfterMove(currentPlayer, fullmoveNumber) ==
    IF currentPlayer = BLACK THEN fullmoveNumber + 1 ELSE fullmoveNumber

playerAfterMove(currentPlayer) == IF currentPlayer = WHITE THEN BLACK ELSE WHITE

makeMove(S, move) ==
    LET b == S.board
        from == move.from
        to == move.to
        moving == b.squares[from.row][from.col]
        br == IF move.flag = MOVE_CASTLE_KING \/ move.flag = MOVE_CASTLE_QUEEN
              THEN makeMoveCastle(b.squares, b.castling, move, moving)
              ELSE IF move.flag = MOVE_EN_PASSANT
              THEN makeMoveEnPassant(b.squares, b.castling, move, moving, b.currentPlayer)
              ELSE makeMoveNormal(b.squares, b.castling, move, moving)
        rec == [move |-> move,
                captured |-> br.captured,
                prevCastling |-> b.castling,
                prevEnPassant |-> b.enPassantTarget,
                prevHalfmoveClock |-> b.halfmoveClock,
                prevFullmoveNumber |-> b.fullmoveNumber,
                prevPlayer |-> b.currentPlayer]
    IN  [board |->
            [squares |-> br.squares,
             currentPlayer |-> playerAfterMove(b.currentPlayer),
             castling |-> castlingAfterMove(br.castling, from, to, moving, br.captured),
             enPassantTarget |-> br.enPassantTarget,
             halfmoveClock |-> halfmoveAfterMove(br.resetHalfmove, b.halfmoveClock),
             fullmoveNumber |-> fullmoveAfterMove(b.currentPlayer, b.fullmoveNumber)],
         hist |-> pushHistory(S.hist, rec)]

(***************************************************************************)
(* game.c: undoMove.  The move argument is not read: the record popped     *)
(* from the history stack decides what is undone.                          *)
(***************************************************************************)
\* the row on which undoMove puts back the pawn captured en passant
undoCapRow(prevPlayer, toRow) == IF prevPlayer = WHITE THEN toRow + 1 ELSE toRow - 1

undoSquares(sq0, rec) ==
    LET from == rec.move.from
        to == rec.move.to
        flag == rec.move.flag
    IN  IF flag = MOVE_CASTLE_KING \/ flag = MOVE_CASTLE_QUEEN
        THEN LET sq1 == SetSquare(SetSquare(sq0, from.row, from.col, sq0[to.row][to.col]),
                                  to.row, to.col, NoPiece)
                 row == IF rec.prevPlayer = WHITE THEN 7 ELSE 0
             IN  IF flag = MOVE_CASTLE_KING
                 THEN SetSquare(SetSquare(sq1, row, 7, sq1[row][5]), row, 5, NoPiece)
                 ELSE SetSquare(SetSquare(sq1, row, 0, sq1[row][3]), row, 3, NoPiece)
        ELSE IF flag = MOVE_EN_PASSANT
        THEN LET sq1 == SetSquare(SetSquare(sq0, from.row, from.col, sq0[to.row][to.col]),
                                  to.row, to.col, NoPiece)
                 capRow == undoCapRow(rec.prevPlayer, to.row)
             IN  IF onBoard(capRow, to.col)
                 THEN SetSquare(sq1, capRow, to.col, rec.captured) ELSE sq1
        ELSE IF flag = MOVE_PROMOTION
        THEN SetSquare(SetSquare(sq0, from.row, from.col, Piece(PAWN, rec.prevPlayer)),
                       to.row, to.col, rec.captured)
        ELSE SetSquare(SetSquare(sq0, from.row, from.col, sq0[to.row][to.col]),
                       to.row, to.col, rec.captured)

undoMove(S, move) ==
    IF Len(S.hist) <= 0 THEN S
    ELSE LET rec == S.hist[Len(S.hist)]
         IN  [board |->
                 [squares |-> undoSquares(S.board.squares, rec),
                  currentPlayer |-> rec.prevPlayer,
                  castling |-> rec.prevCastling,
                  enPassantTarget |-> rec.prevEnPassant,
                  halfmoveClock |-> rec.prevHalfmoveClock,
                  fullmoveNumber |-> rec.prevFullmoveNumber],
              hist |-> SubSeq(S.hist, 1, Len(S.hist) - 1)]

(***************************************************************************)
(* game.c: isSquareAttacked, findKing, isKingInCheck.                      *)
(***************************************************************************)
\* the eight ray directions: four diagonals, then four straight lines
slideDR == <<-1, -1, 1, 1, -1, 1, 0, 0>>
slideDC == <<-1, 1, -1, 1, 0, 0, -1, 1>>
knightDR == <<-2, -2, -1, -1, 1, 1, 2, 2>>
knightDC == <<-1, 1, -2, 2, -2, 2, -1, 1>>
kingDR == <<-1, -1, -1, 0, 0, 1, 1, 1>>
kingDC == <<-1, 0, 1, -1, 1, -1, 0, 1>>

\* one ray of the sliding-piece loop, direction i (0..7): the loop walks
\* k = 1..7 and stops at the first piece or at the edge, so the ray attacks
\* when some step k holds a fitting attacker and every step before it is
\* empty
attackedOnRay(sq, r, c, attackerColor, i) ==
    \E k \in 1..7 :
        /\ onBoard(r + slideDR[i + 1] * k, c + slideDC[i + 1] * k)
        /\ \A j \in 1..(k - 1) :
              sq[r + slideDR[i + 1] * j][c + slideDC[i + 1] * j].type = EMPTY
        /\ LET p == sq[r + slideDR[i + 1] * k][c + slideDC[i + 1] * k]
           IN  /\ p.type # EMPTY
               /\ p.color = attackerColor
               /\ (p.type = QUEEN
                   \/ (i < 4 /\ p.type = BISHOP)
                   \/ (i >= 4 /\ p.type = ROOK))

\* the pawn part of isSquareAttacked: the row sampled for attacking pawns
pawnAttackRow(r, attackerColor) == r + (IF attackerColor = WHITE THEN -1 ELSE 1)

attackedByPawn(sq, r, c, attackerColor) ==
    LET pr == pawnAttackRow(r, attackerColor)
    IN  pr >= 0 /\ pr < 8
        /\ \/ (c - 1 >= 0 /\ sq[pr][c - 1].color = attackerColor /\ sq[pr][c - 1].type = PAWN)
           \/ (c + 1 < 8 /\ sq[pr][c + 1].color = attackerColor /\ sq[pr][c + 1].type = PAWN)

isSquareAttacked(b, r, c, attackerColor) ==
    LET sq == b.squares
    IN  \/ \E i \in 0..7 : attackedOnRay(sq, r, c, attackerColor, i)
        \/ \E i \in 1..8 :
              /\ onBoard(r + knightDR[i], c + knightDC[i])
              /\ sq[r + knightDR[i]][c + knightDC[i]].color = attackerColor
              /\ sq[r + knightDR[i]][c + knightDC[i]].type = KNIGHT
        \/ attackedByPawn(sq, r, c, attackerColor)
        \/ \E i \in -1..1, j \in -1..1 :
              /\ ~(i = 0 /\ j = 0)
              /\ onBoard(r + i, c + j)
              /\ sq[r + i][c + j].color = attackerColor
              /\ sq[r + i][c + j].type = KING

\* the squares, numbered row-major, that hold a king of the colour
kingSquares(sq, color) ==
    {n \in 0..63 : sq[n \div 8][n % 8].type = KING /\ sq[n \div 8][n % 8].color = color}

\* the first king of the colour in row-major order, or (-1,-1)
findKing(b, color) ==
    LET ks == kingSquares(b.squares, color)
    IN  IF ks = {} THEN NoSquare
        ELSE LET n == CHOOSE k \in ks : \A j \in ks : k <= j
             IN  Position(n \div 8, n % 8)

isKingInCheck(b, kingColor) ==
    LET kp == findKing(b, kingColor)
    IN  IF kp.row = -1 THEN FALSE
        ELSE isSquareAttacked(b, kp.row, kp.col, opposite(kingColor))

(***************************************************************************)
(* ai.c: the pseudo-legal move generator.  A MoveList is the sequence of   *)
(* its first count moves, in the order the code appends them.              *)
(***************************************************************************)
addMove(b, list, move) ==
    IF ~onBoard(move.to.row, move.to.col) THEN list
    ELSE IF move.flag # MOVE_EN_PASSANT
            /\ b.squares[move.to.row][move.to.col].color = b.currentPlayer
    THEN list
    ELSE Append(list, move)

\* addMove called for each move of moves in turn: addMove leaves the board
\* alone, so each call keeps or drops its move whatever the list holds
addMoves(b, list, moves) ==
    list \o SelectSeq(moves, LAMBDA m : addMove(b, <<>>, m) # <<>>)

\* a pawn arriving on the promotion rank that is given the queen only
pawnArrivalQueen(from, tr, tc, promotionRank) ==
    IF tr = promotionRank
    THEN << Move(from, Position(tr, tc), QUEEN, MOVE_PROMOTION) >>
    ELSE << Move(from, Position(tr, tc), EMPTY, MOVE_NORMAL) >>

\* the moves a pawn arriving on (tr, tc) asks addMove for: the four
\* promotions on the promotion rank, else the one normal move
pawnArrival(from, tr, tc, promotionRank) ==
    IF tr = promotionRank
    THEN << Move(from, Position(tr, tc), QUEEN, MOVE_PROMOTION),
            Move(from, Position(tr, tc), ROOK, MOVE_PROMOTION),
            Move(from, Position(tr, tc), BISHOP, MOVE_PROMOTION),
            Move(from, Position(tr, tc), KNIGHT, MOVE_PROMOTION) >>
    ELSE << Move(from, Position(tr, tc), EMPTY, MOVE_NORMAL) >>

\* one iteration of the capture loop of generatePawnMoves, for column newC
pawnCapture(b, r, c, newC, dir, promotionRank) ==
    IF newC >= 0 /\ newC < 8
    THEN (IF b.squares[r + dir][newC].type # EMPTY
             /\ b.squares[r + dir][newC].color # b.currentPlayer
          THEN pawnArrival(Position(r, c), r + dir, newC, promotionRank)
          ELSE <<>>)
         \o (IF r + dir = b.enPassantTarget.row /\ newC = b.enPassantTarget.col
             THEN << Move(Position(r, c), Position(r + dir, newC), EMPTY, MOVE_EN_PASSANT) >>
             ELSE <<>>)
    ELSE <<>>

generatePawnMoves(b, list, r, c) ==
    LET player == b.currentPlayer
        dir == IF player = WHITE THEN -1 ELSE 1
        startRow == IF player = WHITE THEN 6 ELSE 1
        promotionRank == IF player = WHITE THEN 0 ELSE 7
        from == Position(r, c)
    IN  addMoves(b, list,
            (IF r + dir >= 0 /\ r + dir < 8 /\ b.squares[r + dir][c].type = EMPTY
             THEN pawnArrival(from, r + dir, c, promotionRank)
             ELSE <<>>)
            \o (IF r = startRow /\ b.squares[r + dir][c].type = EMPTY
                   /\ b.squares[r + 2 * dir][c].type = EMPTY
                THEN << Move(from, Position(r + 2 * dir, c), EMPTY, MOVE_NORMAL) >>
                ELSE <<>>)
            \o pawnCapture(b, r, c, c - 1, dir, promotionRank)
            \o pawnCapture(b, r, c, c + 1, dir, promotionRank))

\* the eight moves of an offset loop, in the order of its arrays
offsetMoves(r, c, dRs, dCs) ==
    [i \in 1..8 |-> Move(Position(r, c), Position(r + dRs[i], c + dCs[i]),
                         EMPTY, MOVE_NORMAL)]

generateKnightMoves(b, list, r, c) ==
    addMoves(b, list, offsetMoves(r, c, knightDR, knightDC))

\* the castle moves of one side; row is 7 for White and 0 for Black
castleMoves(b, row, kingSide, queenSide, opponent) ==
    (IF kingSide # 0 /\ b.squares[row][5].type = EMPTY /\ b.squares[row][6].type = EMPTY
        /\ ~isSquareAttacked(b, row, 5, opponent)
        /\ ~isSquareAttacked(b, row, 6, opponent)
     THEN << Move(Position(row, 4), Position(row, 6), EMPTY, MOVE_CASTLE_KING) >>
     ELSE <<>>)
    \o (IF queenSide # 0 /\ b.squares[row][1].type = EMPTY /\ b.squares[row][2].type = EMPTY
           /\ b.squares[row][3].type = EMPTY
           /\ ~isSquareAttacked(b, row, 2, opponent)
           /\ ~isSquareAttacked(b, row, 3, opponent)
        THEN << Move(Position(row, 4), Position(row, 2), EMPTY, MOVE_CASTLE_QUEEN) >>
        ELSE <<>>)

generateKingMoves(b, list, r, c) ==
    LET player == b.currentPlayer
        opponent == opposite(player)
    IN  addMoves(b, list,
            offsetMoves(r, c, kingDR, kingDC)
            \o (IF isKingInCheck(b, player) THEN <<>>
                ELSE IF player = WHITE
                THEN castleMoves(b, 7, b.castling.wk, b.castling.wq, opponent)
                ELSE castleMoves(b, 0, b.castling.bk, b.castling.bq, opponent)))

\* whether the loops of generateSlidingMoves reach step k of direction i
\* (0..7) and call addMove there: the square is on the board, every step
\* before it is empty, and it is empty or holds a piece of the other colour
slideReaches(b, r, c, i, k) ==
    /\ onBoard(r + slideDR[i + 1] * k, c + slideDC[i + 1] * k)
    /\ \A j \in 1..(k - 1) :
          b.squares[r + slideDR[i + 1] * j][c + slideDC[i + 1] * j].type = EMPTY
    /\ LET target == b.squares[r + slideDR[i + 1] * k][c + slideDC[i + 1] * k]
       IN  target.type = EMPTY \/ target.color # b.currentPlayer

generateSlidingMoves(b, list, r, c) ==
    LET t == b.squares[r][c].type
        startDir == IF t = BISHOP THEN 0 ELSE IF t = ROOK THEN 4 ELSE 0
        endDir == IF t = BISHOP THEN 4 ELSE IF t = ROOK THEN 8 ELSE 8
        \* the steps (i, k) in loop order, numbered from 1
        steps == [n \in 1..((endDir - startDir) * 7) |->
                     [i |-> startDir + ((n - 1) \div 7), k |-> ((n - 1) % 7) + 1]]
        reached == SelectSeq(steps, LAMBDA s : slideReaches(b, r, c, s.i, s.k))
    IN  addMoves(b, list,
            [n \in 1..Len(reached) |->
                Move(Position(r, c),
                     Position(r + slideDR[reached[n].i + 1] * reached[n].k,
                              c + slideDC[reached[n].i + 1] * reached[n].k),
                     EMPTY, MOVE_NORMAL)])

\* the body of the dispatcher's loops for square (r, c)
generateSquare(b, list, r, c) ==
    LET p == b.squares[r][c]
    IN  IF p.color # b.currentPlayer THEN list
        ELSE IF p.type = PAWN THEN generatePawnMoves(b, list, r, c)
        ELSE IF p.type = KNIGHT THEN generateKnightMoves(b, list, r, c)
        ELSE IF p.type \in {BISHOP, ROOK, QUEEN} THEN generateSlidingMoves(b, list, r, c)
        ELSE IF p.type = KING THEN generateKingMoves(b, list, r, c)
        ELSE list

\* the dispatcher's loops over the squares lo..hi, numbered row-major.  No
\* generator reads the list it appends to, so the list after the loops is
\* the concatenation, in loop order, of what each square appends (the range
\* is halved so that the evaluation nests 6 deep instead of 64)
RECURSIVE generateRange(_, _, _)
generateRange(b, lo, hi) ==
    IF lo = hi THEN generateSquare(b, <<>>, lo \div 8, lo % 8)
    ELSE LET mid == (lo + hi) \div 2
         IN  generateRange(b, lo, mid) \o generateRange(b, mid + 1, hi)

generatePseudoLegalMoves(b) == generateRange(b, 0, 63)

(***************************************************************************)
(* ai.c: generateAllLegalMoves.  Every pseudo-legal move is made on the    *)
(* caller's board, tested and undone, so the filter threads the board and  *)
(* the history stack through the loop.                                     *)
(***************************************************************************)
\* the filter loop over pseudo[lo..hi]: the moves kept and the board and
\* history stack the loop leaves (the range is halved to bound the nesting)
RECURSIVE filterLegal(_, _, _, _, _)
filterLegal(S, pseudo, lo, hi, player) ==
    IF lo > hi THEN [list |-> <<>>, state |-> S]
    ELSE IF lo = hi
    THEN LET m == pseudo[lo]
             S1 == makeMove(S, m)
         IN  [list |-> IF ~isKingInCheck(S1.board, player) THEN <<m>> ELSE <<>>,
              state |-> undoMove(S1, m)]
    ELSE LET mid == (lo + hi) \div 2
             left == filterLegal(S, pseudo, lo, mid, player)
             right == filterLegal(left.state, pseudo, mid + 1, hi, player)
         IN  [list |-> left.list \o right.list, state |-> right.state]

generateAllLegalMovesRun(S) ==
    LET pseudo == generatePseudoLegalMoves(S.board)
    IN  filterLegal(S, pseudo, 1, Len(pseudo), S.board.currentPlayer)

generateAllLegalMoves(S) == generateAllLegalMovesRun(S).list

(***************************************************************************)
(* eval.c: evaluateBoard, the static score from White's side.              *)
(***************************************************************************)
PAWN_VALUE == 100
KNIGHT_VALUE == 320
BISHOP_VALUE == 330
ROOK_VALUE == 500
QUEEN_VALUE == 900
KING_VALUE == 20000
MOBILITY_BONUS_PER_MOVE == 1

pawnTable ==
    << << 0, 0, 0, 0, 0, 0, 0, 0>>,
       <<50, 50, 50, 50, 50, 50, 50, 50>>,
       <<10, 10, 20, 30, 30, 20, 10, 10>>,
       << 5, 5, 10, 25, 25, 10, 5, 5>>,
       << 0, 0, 0, 20, 20, 0, 0, 0>>,
       << 5, -5, -10, 0, 0, -10, -5, 5>>,
       << 5, 10, 10, -20, -20, 10, 10, 5>>,
       << 0, 0, 0, 0, 0, 0, 0, 0>> >>

knightTable ==
    << <<-50, -40, -30, -30, -30, -30, -40, -50>>,
       <<-40, -20, 0, 0, 0, 0, -20, -40>>,
       <<-30, 0, 10, 15, 15, 10, 0, -30>>,
       <<-30, 5, 15, 20, 20, 15, 5, -30>>,
       <<-30, 0, 15, 20, 20, 15, 0, -30>>,
       <<-30, 5, 10, 15, 15, 10, 5, -30>>,
       <<-40, -20, 0, 5, 5, 0, -20, -40>>,
       <<-50, -40, -30, -30, -30, -30, -40, -50>> >>

bishopTable ==
    << <<-20, -10, -10, -10, -10, -10, -10, -20>>,
       <<-10, 0, 0, 0, 0, 0, 0, -10>>,
       <<-10, 0, 5, 10, 10, 5, 0, -10>>,
       <<-10, 5, 5, 10, 10, 5, 5, -10>>,
       <<-10, 0, 10, 10, 10, 10, 0, -10>>,
       <<-10, 10, 10, 10, 10, 10, 10, -10>>,
       <<-10, 5, 0, 0, 0, 0, 5, -10>>,
       <<-20, -10, -10, -10, -10, -10, -10, -20>> >>

rookTable ==
    << << 0, 0, 0, 0, 0, 0, 0, 0>>,
       << 5, 10, 10, 10, 10, 10, 10, 5>>,
       <<-5, 0, 0, 0, 0, 0, 0, -5>>,
       <<-5, 0, 0, 0, 0, 0, 0, -5>>,
       <<-5, 0, 0, 0, 0, 0, 0, -5>>,
       <<-5, 0, 0, 0, 0, 0, 0, -5>>,
       <<-5, 0, 0, 0, 0, 0, 0, -5>>,
       << 0, 0, 0, 5, 5, 0, 0, 0>> >>

queenTable ==
    << <<-20, -10, -10, -5, -5, -10, -10, -20>>,
       <<-10, 0, 0, 0, 0, 0, 0, -10>>,
       <<-10, 0, 5, 5, 5, 5, 0, -10>>,
       << -5, 0, 5, 5, 5, 5, 0, -5>>,
       <<  0, 0, 5, 5, 5, 5, 0, -5>>,
       <<-10, 5, 5, 5, 5, 5, 0, -10>>,
       <<-10, 0, 5, 0, 0, 0, 0, -10>>,
       <<-20, -10, -10, -5, -5, -10, -10, -20>> >>

kingTable ==
    << <<-30, -40, -40, -50, -50, -40, -40, -30>>,
       <<-30, -40, -40, -50, -50, -40, -40, -30>>,
       <<-30, -40, -40, -50, -50, -40, -40, -30>>,
       <<-30, -40, -40, -50, -50, -40, -40, -30>>,
       <<-20, -30, -30, -40, -40, -30, -30, -20>>,
       <<-10, -20, -20, -20, -20, -20, -20, -10>>,
       << 20, 20, 0, 0, 0, 0, 20, 20>>,
       << 20, 30, 10, 0, 0, 10, 30, 20>> >>

getPieceValue(type) ==
    CASE type = PAWN -> PAWN_VALUE
      [] type = KNIGHT -> KNIGHT_VALUE
      [] type = BISHOP -> BISHOP_VALUE
      [] type = ROOK -> ROOK_VALUE
      [] type = QUEEN -> QUEEN_VALUE
      [] type = KING -> KING_VALUE
      [] OTHER -> 0

getPiecePositionalScore(type, color, r, c) ==
    LET row == IF color = WHITE THEN r ELSE 7 - r
    IN  CASE type = PAWN -> pawnTable[row + 1][c + 1]
          [] type = KNIGHT -> knightTable[row + 1][c + 1]
          [] type = BISHOP -> bishopTable[row + 1][c + 1]
          [] type = ROOK -> rookTable[row + 1][c + 1]
          [] type = QUEEN -> queenTable[row + 1][c + 1]
          [] type = KING -> kingTable[row + 1][c + 1]
          [] OTHER -> 0

\* the steps of direction i (0..7) that countSlidingMoves counts: the
\* square is on the board, every step before it is empty, and it is empty
\* or holds a piece of the other colour
countRay(sq, r, c, color, i) ==
    Cardinality({k \in 1..7 :
        /\ onBoard(r + slideDR[i + 1] * k, c + slideDC[i + 1] * k)
        /\ \A j \in 1..(k - 1) :
              sq[r + slideDR[i + 1] * j][c + slideDC[i + 1] * j].type = EMPTY
        /\ LET p == sq[r + slideDR[i + 1] * k][c + slideDC[i + 1] * k]
           IN  p.type = EMPTY \/ p.color # color})

RECURSIVE sumOver(_, _, _)
\* f[lo] + ... + f[hi]
sumOver(f, lo, hi) ==
    IF lo > hi THEN 0
    ELSE IF lo = hi THEN f[lo]
    ELSE sumOver(f, lo, (lo + hi) \div 2) + sumOver(f, (lo + hi) \div 2 + 1, hi)

countSlidingMoves(b, r, c, p) ==
    LET startDir == IF p.type = BISHOP THEN 0 ELSE IF p.type = ROOK THEN 4 ELSE 0
        endDir == IF p.type = BISHOP THEN 4 ELSE IF p.type = ROOK THEN 8 ELSE 8
    IN  sumOver([i \in startDir..(endDir - 1) |-> countRay(b.squares, r, c, p.color, i)],
                startDir, endDir - 1)

countKnightMoves(b, r, c, p) ==
    Cardinality({i \in 1..8 :
                    /\ onBoard(r + knightDR[i], c + knightDC[i])
                    /\ b.squares[r + knightDR[i]][c + knightDC[i]].color # p.color})

\* what the loop body of evaluateBoard adds to totalScore for square (r, c)
squareScore(b, r, c) ==
    LET p == b.squares[r][c]
    IN  IF p.type = EMPTY THEN 0
        ELSE LET pieceScore == getPieceValue(p.type)
                               + getPiecePositionalScore(p.type, p.color, r, c)
                 mobilityScore ==
                     IF p.type = KNIGHT THEN countKnightMoves(b, r, c, p)
                     ELSE IF p.type \in {BISHOP, ROOK, QUEEN}
                     THEN countSlidingMoves(b, r, c, p)
                     ELSE 0
                 total == pieceScore + mobilityScore * MOBILITY_BONUS_PER_MOVE
             IN  IF p.color = WHITE THEN total ELSE -total

evaluateBoard(b) ==
    sumOver([n \in 0..63 |-> squareScore(b, n \div 8, n % 8)], 0, 63)

(***************************************************************************)
(* ai.c: move ordering.                                                    *)
(***************************************************************************)
\* the piece values of the two switch statements of scoreMove
orderingValue(type) ==
    CASE type = PAWN -> 100
      [] type = KNIGHT -> 320
      [] type = BISHOP -> 330
      [] type = ROOK -> 500
      [] type = QUEEN -> 900
      [] type = KING -> 20000
      [] OTHER -> 0

scoreMove(b, m) ==
    LET target == b.squares[m.to.row][m.to.col]
        attacker == b.squares[m.from.row][m.from.col]
    IN  IF target.type # EMPTY
        THEN 10000 + orderingValue(target.type) - (orderingValue(attacker.type) \div 10)
        ELSE IF m.flag = MOVE_PROMOTION THEN 9000
        ELSE 0

\* a faulty variant of bubblePass that also swaps pairs of equal score
RECURSIVE bubblePassSwapsEqual(_, _, _)
bubblePassSwapsEqual(arr, j, last) ==
    IF j > last THEN arr
    ELSE IF arr[j].score <= arr[j + 1].score
    THEN bubblePassSwapsEqual([arr EXCEPT ![j] = arr[j + 1], ![j + 1] = arr[j]], j + 1, last)
    ELSE bubblePassSwapsEqual(arr, j + 1, last)

\* the inner loop of the bubble sort: j runs from j to last (1-based), on
\* the list of [score, move] pairs
RECURSIVE bubblePass(_, _, _)
bubblePass(arr, j, last) ==
    IF j > last THEN arr
    ELSE IF arr[j].score < arr[j + 1].score
    THEN bubblePass([arr EXCEPT ![j] = arr[j + 1], ![j + 1] = arr[j]], j + 1, last)
    ELSE bubblePass(arr, j + 1, last)

\* the outer loop: pass i (0-based) compares the pairs 1 .. count - i - 1
RECURSIVE bubbleSort(_, _)
bubbleSort(arr, i) ==
    IF i >= Len(arr) - 1 THEN arr
    ELSE bubbleSort(bubblePass(arr, 1, Len(arr) - i - 1), i + 1)

scoreMoves(b, list) ==
    LET sorted == bubbleSort([k \in 1..Len(list) |->
                                 [score |-> scoreMove(b, list[k]), move |-> list[k]]], 0)
    IN  [k \in 1..Len(list) |-> sorted[k].move]

(***************************************************************************)
(* ai.c: the search.  Every call works on the caller's board and history   *)
(* stack, so each returns the value together with the pair it leaves.      *)
(***************************************************************************)
INFINITY_SCORE == 1000000
MATE_VALUE == INFINITY_SCORE - 1000

isInsufficientMaterial(b) ==
    \A r \in 0..7, c \in 0..7 : b.squares[r][c].type \in {EMPTY, KING}

\* The loops of the search are folds over the sorted move list.  A loop's
\* variables travel in a record L whose field i is the loop counter (from
\* 1): the body for move i runs when L.i = i and leaves i + 1, and a break
\* or a return inside the loop leaves i as it is, so that no later body
\* runs.  The range of a loop is halved, and the first half is finished
\* before the second is entered, so that the evaluation nests
\* logarithmically in the number of moves.
RECURSIVE quiescence(_, _, _)
RECURSIVE quiescenceLoop(_, _, _, _, _)

\* the end of quiescence's loop body for move m: child is what the
\* recursive call on the position after m returned; on the cutoff alpha
\* holds the value returned
quiescenceUpdate(L, child, m, i, beta) ==
    LET score == -child.val
    IN  [state |-> undoMove(child.state, m),
         alpha |-> IF score >= beta THEN beta
                   ELSE IF score > L.alpha THEN score ELSE L.alpha,
         i |-> IF score >= beta THEN i ELSE i + 1]

\* the body of quiescence's loop for move i: only captures are searched
quiescenceStep(L, moves, i, beta) ==
    IF L.i # i THEN L
    ELSE LET m == moves[i]
             target == L.state.board.squares[m.to.row][m.to.col]
         IN  IF target.type = EMPTY /\ m.flag # MOVE_EN_PASSANT
             THEN [L EXCEPT !.i = i + 1]
             ELSE quiescenceUpdate(L, quiescence(makeMove(L.state, m), -beta, -L.alpha),
                                   m, i, beta)

\* the second half of a loop range, entered when the first half ended
\* without a cutoff
quiescenceLoopRest(left, moves, mid, hi, beta) ==
    IF left.i <= mid THEN left ELSE quiescenceLoop(left, moves, mid + 1, hi, beta)

quiescenceLoop(L, moves, lo, hi, beta) ==
    IF lo > hi THEN L
    ELSE IF lo = hi THEN quiescenceStep(L, moves, lo, beta)
    ELSE quiescenceLoopRest(quiescenceLoop(L, moves, lo, (lo + hi) \div 2, beta),
                            moves, (lo + hi) \div 2, hi, beta)

\* quiescence's return after the loop
quiescenceResult(L) == [val |-> L.alpha, state |-> L.state]

\* quiescence once the moves are sorted
quiescenceSorted(state, moves, alpha, beta) ==
    quiescenceResult(quiescenceLoop([state |-> state, alpha |-> alpha, i |-> 1],
                                    moves, 1, Len(moves), beta))

\* quiescence once the legal moves are generated
quiescenceMoves(gen, alpha, beta) ==
    quiescenceSorted(gen.state, scoreMoves(gen.state.board, gen.list), alpha, beta)

\* quiescence once the position is evaluated
quiescenceStandPat(S, e, alpha, beta) ==
    LET stand_pat == IF S.board.currentPlayer = BLACK THEN -e ELSE e
    IN  IF stand_pat >= beta THEN [val |-> beta, state |-> S]
        ELSE quiescenceMoves(generateAllLegalMovesRun(S),
                             IF stand_pat > alpha THEN stand_pat ELSE alpha, beta)

quiescence(S, alpha, beta) == quiescenceStandPat(S, evaluateBoard(S.board), alpha, beta)

RECURSIVE negamax(_, _, _, _, _)
RECURSIVE negamaxLoop(_, _, _, _, _, _, _)

\* the end of negamax's loop body for move m: child is what the recursive
\* call on the position after m returned
negamaxUpdate(L, child, m, i, beta) ==
    LET score == -child.val
        alpha == IF score > L.alpha THEN score ELSE L.alpha
    IN  [state |-> undoMove(child.state, m),
         maxVal |-> IF score > L.maxVal THEN score ELSE L.maxVal,
         alpha |-> alpha,
         i |-> IF alpha >= beta THEN i ELSE i + 1]

\* the body of negamax's loop for move i; depth is the depth after the
\* check extension
negamaxStep(L, moves, i, depth, beta, ply) ==
    IF L.i # i THEN L
    ELSE negamaxUpdate(L, negamax(makeMove(L.state, moves[i]), depth - 1, -beta,
                                  -L.alpha, ply + 1),
                       moves[i], i, beta)

negamaxLoopRest(left, moves, mid, hi, depth, beta, ply) ==
    IF left.i <= mid THEN left
    ELSE negamaxLoop(left, moves, mid + 1, hi, depth, beta, ply)

negamaxLoop(L, moves, lo, hi, depth, beta, ply) ==
    IF lo > hi THEN L
    ELSE IF lo = hi THEN negamaxStep(L, moves, lo, depth, beta, ply)
    ELSE negamaxLoopRest(negamaxLoop(L, moves, lo, (lo + hi) \div 2, depth, beta, ply),
                         moves, (lo + hi) \div 2, hi, depth, beta, ply)

\* negamax's return after the loop
negamaxResult(L) == [val |-> L.maxVal, state |-> L.state]

\* negamax once the moves are sorted
negamaxSorted(state, moves, depth, alpha, beta, ply) ==
    negamaxResult(negamaxLoop([state |-> state, maxVal |-> -INFINITY_SCORE,
                               alpha |-> alpha, i |-> 1],
                              moves, 1, Len(moves), depth, beta, ply))

\* negamax once the legal moves are generated: mate or stalemate when there
\* are none
negamaxMoves(gen, inCheckNow, depth, alpha, beta, ply) ==
    IF Len(gen.list) = 0
    THEN [val |-> IF inCheckNow THEN -MATE_VALUE + ply ELSE 0, state |-> gen.state]
    ELSE negamaxSorted(gen.state, scoreMoves(gen.state.board, gen.list),
                       depth, alpha, beta, ply)

\* negamax once the side to move is tested for check: the check extension,
\* then quiescence at the horizon
negamaxExtended(S, inCheckNow, depth0, alpha, beta, ply) ==
    LET depth == IF inCheckNow THEN depth0 + 1 ELSE depth0
    IN  IF depth <= 0 THEN quiescence(S, alpha, beta)
        ELSE negamaxMoves(generateAllLegalMovesRun(S), inCheckNow, depth, alpha, beta, ply)

negamax(S, depth0, alpha, beta, ply) ==
    IF S.board.halfmoveClock >= 100 \/ isInsufficientMaterial(S.board)
    THEN [val |-> 0, state |-> S]
    ELSE negamaxExtended(S, isKingInCheck(S.board, S.board.currentPlayer),
                         depth0, alpha, beta, ply)

\* a faulty variant of nullMove: a zero-initialised move
zeroMove == Move(Position(0, 0), Position(0, 0), EMPTY, MOVE_NORMAL)

\* the move findBestMove starts from: from is (-1,-1); to, promotion and
\* flag are not set, and no caller reads them while from.row is -1
nullMove == Move(NoSquare, NoSquare, EMPTY, MOVE_NORMAL)

\* a root loop that also takes a later move of equal value
rootUpdateLast(L, child, m, i) ==
    LET val == -child.val
    IN  [state |-> undoMove(child.state, m),
         bestVal |-> IF val >= L.bestVal THEN val ELSE L.bestVal,
         bestMove |-> IF val >= L.bestVal THEN m ELSE L.bestMove,
         alpha |-> IF val > L.alpha THEN val ELSE L.alpha,
         i |-> i + 1]

\* the end of findBestMove's loop body for move m
rootUpdate(L, child, m, i) ==
    LET val == -child.val
    IN  [state |-> undoMove(child.state, m),
         bestVal |-> IF val > L.bestVal THEN val ELSE L.bestVal,
         bestMove |-> IF val > L.bestVal THEN m ELSE L.bestMove,
         alpha |-> IF val > L.alpha THEN val ELSE L.alpha,
         i |-> i + 1]

\* the body of findBestMove's loop for move i
rootStep(L, moves, i) ==
    IF L.i # i THEN L
    ELSE rootUpdate(L, negamax(makeMove(L.state, moves[i]), SEARCH_DEPTH - 1,
                               -INFINITY_SCORE, -L.alpha, 1),
                    moves[i], i)

RECURSIVE rootLoop(_, _, _, _)

rootLoopRest(left, moves, mid, hi) ==
    IF left.i <= mid THEN left ELSE rootLoop(left, moves, mid + 1, hi)

rootLoop(L, moves, lo, hi) ==
    IF lo > hi THEN L
    ELSE IF lo = hi THEN rootStep(L, moves, lo)
    ELSE rootLoopRest(rootLoop(L, moves, lo, (lo + hi) \div 2),
                      moves, (lo + hi) \div 2, hi)

\* the fail-safe after the root loop
failSafe(bestMove, moves) ==
    IF bestMove.from.row = -1 /\ Len(moves) > 0 THEN moves[1] ELSE bestMove

\* findBestMove's return after the loop
rootResult(L, moves) ==
    [move |-> failSafe(L.bestMove, moves), state |-> L.state, bestVal |-> L.bestVal]

\* findBestMove once the moves are sorted
rootSorted(state, moves) ==
    rootResult(rootLoop([state |-> state, bestVal |-> -INFINITY_SCORE,
                         bestMove |-> nullMove, alpha |-> -INFINITY_SCORE, i |-> 1],
                        moves, 1, Len(moves)),
               moves)

\* findBestMove once the legal moves are generated
rootMoves(gen) == rootSorted(gen.state, scoreMoves(gen.state.board, gen.list))

findBestMoveRun(S) == rootMoves(generateAllLegalMovesRun(S))

findBestMove(S) == findBestMoveRun(S).move

(***************************************************************************)
(* main.c: the default starting position.                                  *)
(***************************************************************************)
startRows ==
    << <<"r", "n", "b", "q", "k", "b", "n", "r">>,
       <<"p", "p", "p", "p", "p", "p", "p", "p">>,
       <<".", ".", ".", ".", ".", ".", ".", ".">>,
       <<".", ".", ".", ".", ".", ".", ".", ".">>,
       <<".", ".", ".", ".", ".", ".", ".", ".">>,
       <<".", ".", ".", ".", ".", ".", ".", ".">>,
       <<"P", "P", "P", "P", "P", "P", "P", "P">>,
       <<"R", "N", "B", "Q", "K", "B", "N", "R">> >>

defaultStart == BoardState(startRows, WHITE, CastlingRights(1, 1, 1, 1), NoSquare, 0, 1)

(***************************************************************************)
(* Characters.  The files hold characters, main.c and fileio.c compute     *)
(* with their codes.                                                       *)
(***************************************************************************)
CharA == 97
Char0 == 48
Char8 == 56
CharQ == 113
CharR == 114
CharB == 98
CharN == 110

Digits == <<"0", "1", "2", "3", "4", "5", "6", "7", "8", "9">>

LowerLetters ==
    <<"a", "b", "c", "d", "e", "f", "g", "h", "i", "j", "k", "l", "m",
      "n", "o", "p", "q", "r", "s", "t", "u", "v", "w", "x", "y", "z">>

UpperLetters ==
    <<"A", "B", "C", "D", "E", "F", "G", "H", "I", "J", "K", "L", "M",
      "N", "O", "P", "Q", "R", "S", "T", "U", "V", "W", "X", "Y", "Z">>

\* the place of ch in seq, 0 if it is not there
indexIn(seq, ch) ==
    IF \E i \in 1..Len(seq) : seq[i] = ch
    THEN CHOOSE i \in 1..Len(seq) : seq[i] = ch
    ELSE 0

\* the code of a character and the character of a code, for the characters
\* the files and the tokens are made of
charCode(ch) ==
    CASE indexIn(Digits, ch) > 0 -> Char0 + indexIn(Digits, ch) - 1
      [] indexIn(LowerLetters, ch) > 0 -> CharA + indexIn(LowerLetters, ch) - 1
      [] indexIn(UpperLetters, ch) > 0 -> 65 + indexIn(UpperLetters, ch) - 1
      [] ch = "\n" -> 10
      [] ch = " " -> 32
      [] ch = "-" -> 45
      [] ch = "." -> 46
      [] OTHER -> 63

charOf(n) ==
    CASE n \in Char0..(Char0 + 9) -> Digits[n - Char0 + 1]
      [] n \in CharA..(CharA + 25) -> LowerLetters[n - CharA + 1]
      [] n \in 65..90 -> UpperLetters[n - 64]
      [] n = 10 -> "\n"
      [] n = 32 -> " "
      [] n = 45 -> "-"
      [] n = 46 -> "."
      [] OTHER -> "?"

\* tolower and toupper of <ctype.h> in the C locale
sameCase(c) == c
tolower(c) == IF c \in 65..90 THEN c + 32 ELSE c
toupper(c) == IF c \in 97..122 THEN c - 32 ELSE c

(***************************************************************************)
(* fileio.c: board.txt.  A file is the sequence of its lines as fgets      *)
(* returns them, each a sequence of characters with its newline.           *)
(***************************************************************************)
NoFile == [present |-> FALSE, lines |-> <<>>]

pieceLetter(type) ==
    CASE type = PAWN -> "p"
      [] type = KNIGHT -> "n"
      [] type = BISHOP -> "b"
      [] type = ROOK -> "r"
      [] type = QUEEN -> "q"
      [] type = KING -> "k"
      [] OTHER -> "?"

pieceToChar(p) ==
    IF p.type = EMPTY THEN "."
    ELSE IF p.color = WHITE
         THEN charOf(toupper(charCode(pieceLetter(p.type))))
         ELSE pieceLetter(p.type)

\* strlen(s) must be 2: the line fgets returned, newline included, has to
\* be the two characters of the square
algebraicToPos(s) ==
    IF Len(s) # 2 THEN NoSquare
    ELSE IF charCode(s[1]) < CharA \/ charCode(s[1]) > CharA + 7 THEN NoSquare
    ELSE IF charCode(s[2]) < Char0 + 1 \/ charCode(s[2]) > Char8 THEN NoSquare
    ELSE Position(8 - (charCode(s[2]) - Char0), charCode(s[1]) - CharA)

posToAlgebraic(pos) ==
    IF pos.row = -1 THEN <<"-">>
    ELSE <<charOf(CharA + pos.col), charOf(Char8 - pos.row)>>

\* printf of %d
RECURSIVE decimal(_)
decimal(n) ==
    IF n < 0 THEN <<"-">> \o decimal(-n)
    ELSE IF n < 10 THEN <<charOf(Char0 + n)>>
    ELSE decimal(n \div 10) \o <<charOf(Char0 + (n % 10))>>

\* atoi: blanks, a sign, then digits up to the first other character
RECURSIVE atoiDigits(_, _, _)
atoiDigits(s, i, acc) ==
    IF i > Len(s) \/ indexIn(Digits, s[i]) = 0 THEN acc
    ELSE atoiDigits(s, i + 1, 10 * acc + (charCode(s[i]) - Char0))

RECURSIVE atoiFrom(_, _)
atoiFrom(s, i) ==
    IF i > Len(s) THEN 0
    ELSE IF s[i] = " " THEN atoiFrom(s, i + 1)
    ELSE IF s[i] = "-" THEN -atoiDigits(s, i + 1, 0)
    ELSE atoiDigits(s, i, 0)

atoi(s) == atoiFrom(s, 1)

\* the castling line: the letters of the rights held, "-" for none
castlingText(c) ==
    IF c.wk = 0 /\ c.wq = 0 /\ c.bk = 0 /\ c.bq = 0 THEN <<"-">>
    ELSE (IF c.wk # 0 THEN <<"K">> ELSE <<>>) \o (IF c.wq # 0 THEN <<"Q">> ELSE <<>>)
         \o (IF c.bk # 0 THEN <<"k">> ELSE <<>>) \o (IF c.bq # 0 THEN <<"q">> ELSE <<>>)

rowText(b, r) == [c \in 1..8 |-> pieceToChar(b.squares[r][c - 1])] \o <<"\n">>

saveBoardToFile(b) ==
    [present |-> TRUE,
     lines |-> [r \in 1..8 |-> rowText(b, r - 1)]
               \o << <<IF b.currentPlayer = WHITE THEN "w" ELSE "b", "\n">>,
                     castlingText(b.castling) \o <<"\n">>,
                     posToAlgebraic(b.enPassantTarget) \o <<"\n">>,
                     decimal(b.halfmoveClock) \o <<"\n">>,
                     decimal(b.fullmoveNumber) \o <<"\n">> >>]

\* the rows the row loop reads before fgets fails or a line is shorter than
\* 8 characters
rowsRead(file) ==
    IF \E r \in 1..8 : Len(file.lines) < r \/ Len(file.lines[r]) < 8
    THEN (CHOOSE r \in 1..8 :
             /\ Len(file.lines) < r \/ Len(file.lines[r]) < 8
             /\ \A q \in 1..(r - 1) : Len(file.lines) >= q /\ Len(file.lines[q]) >= 8) - 1
    ELSE 8

\* the characters of the castling line before its newline
lettersOf(line) ==
    IF indexIn(line, "\n") > 0 THEN SeqToSet(SubSeq(line, 1, indexIn(line, "\n") - 1))
    ELSE SeqToSet(line)

castlingOf(line) ==
    CastlingRights(IF "K" \in lettersOf(line) THEN 1 ELSE 0,
                   IF "Q" \in lettersOf(line) THEN 1 ELSE 0,
                   IF "k" \in lettersOf(line) THEN 1 ELSE 0,
                   IF "q" \in lettersOf(line) THEN 1 ELSE 0)

enPassantOf(line) ==
    IF line[1] = "-" THEN NoSquare ELSE algebraicToPos(line)

\* the fields of b that loadBoardFromFile has written when it has read the
\* first n lines of a file with 8 good rows
loadedFields(file, b, n) ==
    [squares |-> [r \in 0..7 |-> [c \in 0..7 |-> charToPiece(file.lines[r + 1][c + 1])]],
     currentPlayer |-> IF n >= 9
                       THEN (IF file.lines[9][1] = "w" THEN WHITE ELSE BLACK)
                       ELSE b.currentPlayer,
     castling |-> IF n >= 10 THEN castlingOf(file.lines[10]) ELSE b.castling,
     enPassantTarget |-> IF n >= 11 THEN enPassantOf(file.lines[11]) ELSE b.enPassantTarget,
     halfmoveClock |-> IF n >= 12 THEN atoi(file.lines[12]) ELSE b.halfmoveClock,
     fullmoveNumber |-> IF n >= 13 THEN atoi(file.lines[13]) ELSE b.fullmoveNumber]

\* loadBoardFromFile into the BoardState b: whether it succeeded, and b as
\* it is left, with what was read before a failure written into it
loadBoardFromFile(file, b) ==
    IF ~file.present THEN [ok |-> FALSE, board |-> b]
    ELSE IF rowsRead(file) < 8
    THEN [ok |-> FALSE,
          board |-> [b EXCEPT !.squares =
                        [r \in 0..7 |-> IF r < rowsRead(file)
                                        THEN [c \in 0..7 |-> charToPiece(file.lines[r + 1][c + 1])]
                                        ELSE b.squares[r]]]]
    ELSE [ok |-> Len(file.lines) >= 13,
          board |-> loadedFields(file, b, Len(file.lines))]

(***************************************************************************)
(* main.c: the position the program starts with.                           *)
(***************************************************************************)
\* the assignments of main after a failed load
standardStart(b) ==
    [b EXCEPT !.squares = squaresOf(startRows),
              !.currentPlayer = WHITE,
              !.castling = CastlingRights(1, 1, 1, 1),
              !.enPassantTarget = NoSquare,
              !.halfmoveClock = 0,
              !.fullmoveNumber = 1]

\* main declares its BoardState without initialising it: memory is the
\* content it happens to have
startBoard(file, memory) ==
    IF loadBoardFromFile(file, memory).ok
    THEN loadBoardFromFile(file, memory).board
    ELSE standardStart(loadBoardFromFile(file, memory).board)

St == [board |-> board, hist |-> historyStack]

legalNow == SeqToSet(generateAllLegalMoves(St))

\* a caller of the move machine applies a move of the legal list
Apply(m) ==
    /\ board' = makeMove(St, m).board
    /\ historyStack' = makeMove(St, m).hist
    /\ UNCHANGED boardFile

\* a caller of the move machine takes back the last applied move
Revert ==
    /\ Len(historyStack) > 0
    /\ board' = undoMove(St, historyStack[Len(historyStack)].move).board
    /\ historyStack' = undoMove(St, historyStack[Len(historyStack)].move).hist
    /\ UNCHANGED boardFile

InitStart ==
    /\ boardFile = NoFile
    /\ board = defaultStart
    /\ historyStack = <<>>

\* the files the driver of the opening lines moves on
inWindow(m) ==
    /\ m.from.col \in 3..(3 + WindowWidth)
    /\ m.to.col \in 3..(3 + WindowWidth)

NextStart ==
    \/ \E m \in legalNow : Len(historyStack) < MaxPlyStart /\ inWindow(m) /\ Apply(m)
    \/ Revert

SpecStart == InitStart /\ [][NextStart]_vars

\* the moves of the driver of the pawn raid: White shifts its knights on its
\* three home rows, Black moves its e-pawn and any pawn that has come as far
\* as White's third row
raidMove(b, m) ==
    LET p == b.squares[m.from.row][m.from.col]
    IN  IF p.color = WHITE
        THEN p.type = KNIGHT /\ m.to.row >= 5
        ELSE p.type = PAWN /\ (m.from.col = 4 \/ m.from.row >= 5)

NextRaid ==
    \E m \in legalNow : Len(historyStack) < MaxPlyRaid /\ raidMove(board, m) /\ Apply(m)

SpecRaid == InitStart /\ [][NextRaid]_vars

(***************************************************************************)
(* Positions a game reaches and board.txt can hold (fileio.c,              *)
(* loadBoardFromFile fills every field of the BoardState from the file).   *)
(* Each satisfies the invariants of the position model: one king a side,   *)
(* the side not to move not in check, rights only with king and rook at    *)
(* home, an en passant target only behind a pawn that just advanced two.   *)
(***************************************************************************)
\* both sides may castle; a Black pawn on g2 attacks f1 and h1
castleRows ==
    << <<"r", ".", ".", ".", "k", ".", ".", "r">>,
       <<"p", ".", ".", ".", ".", ".", ".", "p">>,
       <<".", ".", ".", ".", ".", ".", ".", ".">>,
       <<".", ".", ".", ".", ".", ".", ".", ".">>,
       <<".", ".", ".", ".", ".", ".", ".", ".">>,
       <<".", ".", ".", ".", ".", ".", ".", ".">>,
       <<"P", ".", ".", ".", ".", ".", "p", "P">>,
       <<"R", ".", ".", ".", "K", ".", ".", "R">> >>

\* White may castle king-side by right, and a Black rook attacks f1
castleBlockedRows ==
    << <<"k", ".", ".", ".", ".", "r", ".", ".">>,
       <<".", ".", ".", ".", ".", ".", ".", ".">>,
       <<".", ".", ".", ".", ".", ".", ".", ".">>,
       <<".", ".", ".", ".", ".", ".", ".", ".">>,
       <<".", ".", ".", ".", ".", ".", ".", ".">>,
       <<".", ".", ".", ".", ".", ".", ".", ".">>,
       <<".", ".", ".", ".", ".", ".", ".", ".">>,
       <<".", ".", ".", ".", "K", ".", ".", "R">> >>

\* Black to move can advance e7 two squares past the White pawns on d5 and f5
enPassantRows ==
    << <<".", ".", ".", ".", "k", ".", ".", ".">>,
       <<".", ".", ".", ".", "p", ".", ".", ".">>,
       <<".", ".", ".", ".", ".", ".", ".", ".">>,
       <<".", ".", ".", "P", ".", "P", ".", ".">>,
       <<".", ".", ".", ".", ".", ".", ".", ".">>,
       <<".", ".", ".", ".", ".", ".", ".", ".">>,
       <<".", ".", ".", ".", ".", ".", ".", ".">>,
       <<".", ".", ".", ".", "K", ".", ".", ".">> >>

\* White to move can advance e2 two squares past the Black pawn on d4
enPassantBlackRows ==
    << <<".", ".", ".", ".", "k", ".", ".", ".">>,
       <<".", ".", ".", ".", ".", ".", ".", ".">>,
       <<".", ".", ".", ".", ".", ".", ".", ".">>,
       <<".", ".", ".", ".", ".", ".", ".", ".">>,
       <<".", ".", ".", "p", ".", ".", ".", ".">>,
       <<".", ".", ".", ".", ".", ".", ".", ".">>,
       <<".", ".", ".", ".", "P", ".", ".", ".">>,
       <<".", ".", ".", ".", "K", ".", ".", ".">> >>

\* a White pawn on a7 promotes by push or by capture on b8; a Black pawn on
\* h2 promotes by push
promotionRows ==
    << <<".", "r", ".", ".", "k", ".", ".", ".">>,
       <<"P", ".", ".", ".", ".", ".", ".", ".">>,
       <<".", ".", ".", ".", ".", ".", ".", ".">>,
       <<".", ".", ".", ".", ".", ".", ".", ".">>,
       <<".", ".", ".", ".", ".", ".", ".", ".">>,
       <<".", ".", ".", ".", ".", ".", ".", ".">>,
       <<".", ".", ".", ".", ".", ".", ".", "p">>,
       <<".", ".", ".", ".", "K", ".", ".", ".">> >>

\* White to move has no legal move and is not in check
stalemateRows ==
    << <<".", ".", ".", ".", ".", ".", ".", ".">>,
       <<".", ".", ".", ".", ".", ".", ".", ".">>,
       <<".", ".", ".", ".", ".", ".", ".", ".">>,
       <<".", ".", ".", ".", ".", ".", ".", ".">>,
       <<".", ".", ".", ".", ".", ".", ".", ".">>,
       <<".", ".", ".", ".", ".", ".", "k", ".">>,
       <<".", ".", ".", ".", ".", "q", ".", ".">>,
       <<".", ".", ".", ".", ".", ".", ".", "K">> >>

\* Black to move has no legal move, and the pawn on b7 attacks its king
pawnMateRows ==
    << <<"k", ".", ".", ".", ".", ".", ".", ".">>,
       <<".", "P", ".", ".", ".", ".", ".", ".">>,
       <<".", "K", ".", ".", ".", ".", ".", ".">>,
       <<".", ".", ".", ".", "B", ".", ".", ".">>,
       <<".", ".", ".", ".", ".", ".", ".", ".">>,
       <<".", ".", ".", ".", ".", ".", ".", ".">>,
       <<".", ".", ".", ".", ".", ".", ".", ".">>,
       <<".", ".", ".", ".", ".", ".", ".", ".">> >>

Positions ==
    { defaultStart,
      BoardState(castleRows, WHITE, CastlingRights(1, 1, 1, 1), NoSquare, 3, 20),
      BoardState(castleBlockedRows, WHITE, CastlingRights(1, 0, 0, 0), NoSquare, 7, 40),
      BoardState(enPassantRows, BLACK, CastlingRights(0, 0, 0, 0), NoSquare, 2, 30),
      BoardState(enPassantBlackRows, WHITE, CastlingRights(0, 0, 0, 0), NoSquare, 6, 35),
      BoardState(promotionRows, WHITE, CastlingRights(0, 0, 0, 0), NoSquare, 4, 50),
      BoardState(stalemateRows, WHITE, CastlingRights(0, 0, 0, 0), NoSquare, 9, 60),
      BoardState(pawnMateRows, BLACK, CastlingRights(0, 0, 0, 0), NoSquare, 0, 44) }

Init ==
    /\ board \in Positions
    /\ boardFile = saveBoardToFile(board)
    /\ historyStack = <<>>

Next ==
    \/ \E m \in legalNow : Len(historyStack) < MaxPly /\ Apply(m)
    \/ Revert

Spec == Init /\ [][Next]_vars

(***************************************************************************)
(* A long game.  The loop of main never takes a move back, so every ply of *)
(* the game leaves its record on the history stack.  The two kings step    *)
(* e1-d1, e8-d8, d1-e1, d8-e8 over and over; shuffled(k) is the board and  *)
(* the stack after k such plies from halfmove clock 0 and fullmove 1.      *)
(***************************************************************************)
shuffleMove(i) ==
    CASE i % 4 = 1 -> Move(Position(7, 4), Position(7, 3), EMPTY, MOVE_NORMAL)
      [] i % 4 = 2 -> Move(Position(0, 4), Position(0, 3), EMPTY, MOVE_NORMAL)
      [] i % 4 = 3 -> Move(Position(7, 3), Position(7, 4), EMPTY, MOVE_NORMAL)
      [] OTHER     -> Move(Position(0, 3), Position(0, 4), EMPTY, MOVE_NORMAL)

\* the record makeMove pushes for ply i of the shuffle
shuffleRecord(i) ==
    [move |-> shuffleMove(i),
     captured |-> NoPiece,
     prevCastling |-> CastlingRights(0, 0, 0, 0),
     prevEnPassant |-> NoSquare,
     prevHalfmoveClock |-> i - 1,
     prevFullmoveNumber |-> 1 + (i - 1) \div 2,
     prevPlayer |-> IF i % 2 = 1 THEN WHITE ELSE BLACK]

shuffleSquares(k) ==
    [r \in 0..7 |-> [c \in 0..7 |->
        IF r = 7 /\ c = (IF k % 4 \in {1, 2} THEN 3 ELSE 4) THEN Piece(KING, WHITE)
        ELSE IF r = 0 /\ c = (IF k % 4 \in {2, 3} THEN 3 ELSE 4) THEN Piece(KING, BLACK)
        ELSE NoPiece]]

shuffled(k) ==
    [board |-> [squares |-> shuffleSquares(k),
                currentPlayer |-> IF k % 2 = 0 THEN WHITE ELSE BLACK,
                castling |-> CastlingRights(0, 0, 0, 0),
                enPassantTarget |-> NoSquare,
                halfmoveClock |-> k,
                fullmoveNumber |-> 1 + k \div 2],
     hist |-> [i \in 1..k |-> shuffleRecord(i)]]

\* the game has gone on until the stack is nearly full
InitHistory ==
    /\ board = shuffled(MAX_HISTORY - LongGameWindow).board
    /\ historyStack = shuffled(MAX_HISTORY - LongGameWindow).hist
    /\ boardFile = saveBoardToFile(shuffled(0).board)

\* the position is one of the long game
onShuffle == St = shuffled(Len(historyStack))

\* A caller applies a legal move to a position of the long game: the next
\* move of the game, which leads to the next position of the game, or
\* another move, which the caller then takes back.  On positions off the
\* game the caller only takes back, down to the stack depth the long game
\* started from.
NextHistory ==
    \/ \E m \in legalNow : onShuffle /\ Apply(m)
    \/ ~onShuffle /\ Len(historyStack) > MAX_HISTORY - LongGameWindow /\ Revert

SpecHistory == InitHistory /\ [][NextHistory]_vars

(***************************************************************************)
(* Positions board.txt can hold that break the invariants of the position  *)
(* model: loadBoardFromFile takes the castling line as written, whatever   *)
(* stands on the home squares.                                             *)
(***************************************************************************)
\* the White king stands on e2 and the file grants White both castles
kingOffHomeRows ==
    << <<"r", ".", ".", ".", "k", ".", ".", ".">>,
       <<".", ".", ".", ".", ".", ".", ".", "p">>,
       <<".", ".", ".", ".", ".", ".", ".", ".">>,
       <<".", ".", ".", ".", ".", ".", ".", ".">>,
       <<".", ".", ".", ".", ".", ".", ".", ".">>,
       <<".", ".", ".", ".", ".", ".", ".", ".">>,
       <<"P", ".", ".", ".", "K", ".", ".", ".">>,
       <<"R", ".", ".", ".", ".", ".", ".", "R">> >>

LoadedPositions ==
    { BoardState(kingOffHomeRows, WHITE, CastlingRights(1, 1, 0, 1), NoSquare, 5, 25),
      BoardState(castleRows, BLACK, CastlingRights(1, 1, 1, 1), NoSquare, 0, 12) }

InitLoaded ==
    /\ board \in LoadedPositions
    /\ boardFile = saveBoardToFile(board)
    /\ historyStack = <<>>

SpecLoaded == InitLoaded /\ [][Next]_vars

(***************************************************************************)
(* main.c: the game loop.  White's moves are typed by the user, Black's    *)
(* are chosen by findBestMove.                                             *)
(***************************************************************************)
\* the loop of resolveMove over the legal list: the first move with the
\* typed coordinates that the promotion rules accept, if there is one
\* resolveMove once the legal moves are generated: the first legal move with
\* the typed squares, a promotion matching the typed piece or, with none
\* typed, the queen
resolveAmong(gen, inputMove) ==
    LET accepted == SelectSeq(gen.list, LAMBDA m :
                        /\ m.from = inputMove.from
                        /\ m.to = inputMove.to
                        /\ IF m.flag = MOVE_PROMOTION
                           THEN IF inputMove.flag = MOVE_PROMOTION
                                THEN m.promotion = inputMove.promotion
                                ELSE m.promotion = QUEEN
                           ELSE TRUE)
    IN  [found |-> Len(accepted) > 0,
         move |-> IF Len(accepted) > 0 THEN accepted[1] ELSE nullMove,
         state |-> gen.state]

resolveMove(S, inputMove) == resolveAmong(generateAllLegalMovesRun(S), inputMove)

\* the switch of parseMove on the fifth character
parsePromotion(c) ==
    CASE tolower(c) = CharQ -> QUEEN
      [] tolower(c) = CharR -> ROOK
      [] tolower(c) = CharB -> BISHOP
      [] tolower(c) = CharN -> KNIGHT
      [] OTHER -> EMPTY

\* parseMove on the characters of the typed token.  A token shorter than
\* four characters gives from.row = -1 (the other fields, which main does
\* not read then, are left out of the model as -1 and EMPTY); the squares
\* are computed from the first four characters whatever they are, and only
\* a token of exactly five characters is read as a promotion.
parseMove(s) ==
    IF Len(s) < 4
    THEN Move(Position(-1, -1), Position(-1, -1), EMPTY, MOVE_NORMAL)
    ELSE Move(Position(8 - (s[2] - Char0), s[1] - CharA),
              Position(8 - (s[4] - Char0), s[3] - CharA),
              IF Len(s) = 5 THEN parsePromotion(s[5]) ELSE EMPTY,
              IF Len(s) = 5 THEN MOVE_PROMOTION ELSE MOVE_NORMAL)

\* the four characters main prints for the squares of a move
coordText(m) ==
    <<CharA + m.from.col, Char8 - m.from.row, CharA + m.to.col, Char8 - m.to.row>>

\* the letter main prints for a promotion piece
promotionLetter(p) ==
    CASE p = ROOK -> CharR
      [] p = BISHOP -> CharB
      [] p = KNIGHT -> CharN
      [] OTHER -> CharQ

\* the text of a move as main prints it
moveText(m) ==
    IF m.flag = MOVE_PROMOTION
    THEN coordText(m) \o <<promotionLetter(m.promotion)>>
    ELSE coordText(m)

\* the tokens the user is modelled to type in a position: the squares of
\* each legal move, alone, followed by the promotion letter in either case,
\* by the letter x, which names no piece, or by xx; and tokens that name no
\* legal move: "e2", "z2e4", "e9e4", "e2e9", "a8a8"
typedInputs(legal) ==
    {coordText(m) : m \in legal}
    \cup {moveText(m) : m \in legal}
    \cup {coordText(m) \o <<promotionLetter(m.promotion) - 32>> :
              m \in {x \in legal : x.flag = MOVE_PROMOTION}}
    \cup {coordText(m) \o <<120>> : m \in legal}
    \cup {coordText(m) \o <<120, 120>> : m \in legal}
    \cup { <<101, 50>>, <<122, 50, 101, 52>>, <<101, 57, 101, 52>>,
           <<101, 50, 101, 57>>, <<97, 56, 97, 56>> }

userInputs(S) == typedInputs(SeqToSet(generateAllLegalMoves(S)))

\* the loop goes on with the board and the history stack a call left
Becomes(S2) ==
    /\ board' = S2.board
    /\ historyStack' = S2.hist
    /\ UNCHANGED boardFile

\* an input that resolveMove rejects leaves the position as resolveMove
\* left it, an accepted one is made
userResolved(res) ==
    IF res.found THEN makeMove(res.state, res.move) ELSE res.state

\* a parsed input with from.row = -1 is reported as of invalid format, any
\* other goes to resolveMove
userParsed(S, parsed) ==
    IF parsed.from.row = -1 THEN S ELSE userResolved(resolveMove(S, parsed))

\* White's branch of the loop on one typed token
userTurn(S, input) == userParsed(S, parseMove(input))

\* White's branch of the loop
GameUser ==
    /\ board.currentPlayer = WHITE
    /\ Len(historyStack) < MaxPlyGame
    /\ \E input \in userInputs(St) : Becomes(userTurn(St, input))

\* the move of findBestMove is made unless it is the null move, on which
\* the loop ends
GameEngineMove(run) ==
    /\ run.move.from.row # -1
    /\ Becomes(makeMove(run.state, run.move))

\* Black's branch of the loop
GameEngine ==
    /\ board.currentPlayer = BLACK
    /\ Len(historyStack) < MaxPlyGame
    /\ GameEngineMove(findBestMoveRun(St))

kingPawnRows ==
    << <<".", ".", ".", ".", "k", ".", ".", ".">>,
       <<".", ".", ".", ".", ".", ".", ".", ".">>,
       <<".", ".", ".", ".", ".", ".", ".", ".">>,
       <<".", ".", ".", ".", ".", ".", ".", ".">>,
       <<".", ".", ".", ".", ".", ".", ".", ".">>,
       <<".", ".", ".", ".", ".", ".", ".", ".">>,
       <<".", ".", ".", ".", "P", ".", ".", ".">>,
       <<".", ".", ".", ".", "K", ".", ".", ".">> >>

\* Black to move has no move and is not in check
blackStalemateRows ==
    << <<"k", ".", ".", ".", ".", ".", ".", ".">>,
       <<".", ".", "Q", ".", ".", ".", ".", ".">>,
       <<".", ".", ".", ".", ".", ".", ".", ".">>,
       <<".", ".", ".", ".", ".", ".", ".", ".">>,
       <<".", ".", ".", ".", ".", ".", ".", ".">>,
       <<".", ".", ".", ".", ".", ".", ".", ".">>,
       <<".", ".", ".", ".", ".", ".", ".", ".">>,
       <<".", ".", ".", ".", "K", ".", ".", ".">> >>

\* White to move can leave Black without a move by stepping to f7
blockedPawnRows ==
    << <<".", ".", ".", ".", ".", ".", ".", "k">>,
       <<".", ".", ".", ".", ".", ".", ".", "p">>,
       <<".", ".", ".", ".", ".", "K", ".", "P">>,
       <<".", ".", ".", ".", ".", ".", ".", ".">>,
       <<".", ".", ".", ".", ".", ".", ".", ".">>,
       <<".", ".", ".", ".", ".", ".", ".", ".">>,
       <<".", ".", ".", ".", ".", ".", ".", ".">>,
       <<".", ".", ".", ".", ".", ".", ".", ".">> >>

\* White to move can promote, and Black's king stands next to the pawn
kingPromotionRows ==
    << <<".", ".", ".", ".", ".", ".", ".", ".">>,
       <<"P", "k", ".", ".", ".", ".", ".", ".">>,
       <<".", ".", ".", ".", ".", ".", ".", ".">>,
       <<".", ".", ".", ".", ".", ".", ".", ".">>,
       <<".", ".", ".", ".", ".", ".", ".", ".">>,
       <<".", ".", ".", ".", ".", ".", ".", ".">>,
       <<".", ".", ".", ".", ".", ".", ".", ".">>,
       <<".", ".", ".", ".", "K", ".", ".", ".">> >>

GamePositions ==
    { BoardState(kingPawnRows, WHITE, CastlingRights(0, 0, 0, 0), NoSquare, 0, 40),
      BoardState(blackStalemateRows, BLACK, CastlingRights(0, 0, 0, 0), NoSquare, 5, 70),
      BoardState(blockedPawnRows, WHITE, CastlingRights(0, 0, 0, 0), NoSquare, 12, 55),
      BoardState(stalemateRows, BLACK, CastlingRights(0, 0, 0, 0), NoSquare, 9, 60),
      BoardState(stalemateRows, BLACK, CastlingRights(0, 0, 0, 0), NoSquare, 99, 60),
      BoardState(kingPromotionRows, WHITE, CastlingRights(0, 0, 0, 0), NoSquare, 4, 50) }

InitGame ==
    /\ board \in GamePositions
    /\ boardFile = saveBoardToFile(board)
    /\ historyStack = <<>>

NextGame == GameUser \/ GameEngine

SpecGame == InitGame /\ [][NextGame]_vars

(***************************************************************************)
(* main.c: the game loop late in the long game, when the history stack is  *)
(* nearly full.  The user keeps the king on the d- and e-files.            *)
(***************************************************************************)
InitLongGame ==
    /\ board = shuffled(MAX_HISTORY - MaxPlyGame).board
    /\ historyStack = shuffled(MAX_HISTORY - MaxPlyGame).hist
    /\ boardFile = saveBoardToFile(shuffled(0).board)

\* White's branch of the loop
LongGameUser ==
    /\ board.currentPlayer = WHITE
    /\ \E input \in typedInputs({m \in legalNow : inWindow(m)}) :
          Becomes(userTurn(St, input))

\* Black's branch of the loop
LongGameEngine ==
    /\ board.currentPlayer = BLACK
    /\ GameEngineMove(findBestMoveRun(St))

NextLongGame == LongGameUser \/ LongGameEngine

SpecLongGame == InitLongGame /\ [][NextLongGame]_vars

(***************************************************************************)
(* main.c and fileio.c: the game loop with board.txt.  The program starts  *)
(* from the file or, if loading it fails, from the default position; the   *)
(* user saves at a prompt, quits, and runs the program again.              *)
(***************************************************************************)
\* what the memory of main's BoardState may hold before it is loaded:
\* zeroes, or something left from before
zeroMemory ==
    [squares |-> [r \in 0..7 |-> [c \in 0..7 |-> Piece(0, 0)]],
     currentPlayer |-> 0, castling |-> CastlingRights(0, 0, 0, 0),
     enPassantTarget |-> Position(0, 0), halfmoveClock |-> 0, fullmoveNumber |-> 0]

Memory ==
    { zeroMemory,
      BoardState(kingPromotionRows, BLACK, CastlingRights(1, 0, 1, 0), Position(2, 3), 77, 9) }

\* Black to move: findBestMove advances d7 two squares
pawnPushRows ==
    << <<".", ".", ".", ".", "k", ".", ".", ".">>,
       <<".", ".", ".", "p", ".", ".", ".", ".">>,
       <<".", ".", ".", ".", ".", ".", ".", ".">>,
       <<".", ".", ".", ".", ".", ".", ".", ".">>,
       <<".", ".", ".", ".", ".", ".", ".", ".">>,
       <<".", ".", ".", ".", ".", ".", ".", ".">>,
       <<".", ".", ".", ".", ".", ".", ".", ".">>,
       <<".", ".", ".", ".", "K", ".", ".", ".">> >>

FilePositions ==
    { BoardState(kingPawnRows, WHITE, CastlingRights(0, 0, 0, 0), NoSquare, 0, 1),
      BoardState(pawnPushRows, BLACK, CastlingRights(0, 0, 0, 0), NoSquare, 3, 1) }

\* the first n lines of a file
firstLines(file, n) == [present |-> TRUE, lines |-> SubSeq(file.lines, 1, n)]

\* the file with its third row cut to n characters
shortRow(file, n) ==
    [file EXCEPT !.lines[3] = SubSeq(file.lines[3], 1, n) \o <<"\n">>]

\* board.txt at the start: absent, saved by the program, cut off after some
\* line, or with a short row
StartFiles ==
    {NoFile}
    \cup {saveBoardToFile(p) : p \in FilePositions}
    \cup {firstLines(saveBoardToFile(p), n) : p \in FilePositions, n \in {0, 5, 8, 9, 10, 11, 12}}
    \cup {shortRow(saveBoardToFile(p), n) : p \in FilePositions, n \in {4, 7}}

InitFile ==
    /\ boardFile \in StartFiles
    /\ board \in {startBoard(boardFile, memory) : memory \in Memory}
    /\ historyStack = <<>>

\* the token "save" at White's prompt
GameSave ==
    /\ board.currentPlayer = WHITE
    /\ boardFile' = saveBoardToFile(board)
    /\ UNCHANGED <<board, historyStack>>

\* the token "quit" at White's prompt, and the program run again
GameRestart ==
    /\ board.currentPlayer = WHITE
    /\ \E memory \in Memory : board' = startBoard(boardFile, memory)
    /\ historyStack' = <<>>
    /\ UNCHANGED boardFile

\* the number of pieces on the board
pieceCount(b) ==
    Cardinality({sq \in (0..7) \X (0..7) : b.squares[sq[1]][sq[2]].type # EMPTY})

\* the positions the games with board.txt are played from
played == board.fullmoveNumber < MaxFullmove /\ pieceCount(board) <= MaxPieces

NextFile ==
    \/ played /\ GameUser
    \/ played /\ GameEngine
    \/ GameSave
    \/ GameRestart

SpecFile == InitFile /\ [][NextFile]_vars

(***************************************************************************)
(* What the claims speak of.                                               *)
(***************************************************************************)
\* this step is an apply: one more record on the history stack
ApplyStep == Len(historyStack') = Len(historyStack) + 1

\* the move of the newest history record
lastMove == historyStack[Len(historyStack)].move

castleFlags == {MOVE_CASTLE_KING, MOVE_CASTLE_QUEEN}

\* Some piece of colour attacker has a pseudo-legal move, as the generator
\* of ai.c produces them for the side to move, that lands on (r, c) once the
\* square holds an enemy piece (the en passant target is left out: an en
\* passant move does not capture on the square it lands on).
capturesOn(b, r, c, attacker) ==
    LET victim == IF b.squares[r][c].color = opposite(attacker)
                  THEN b.squares[r][c] ELSE Piece(PAWN, opposite(attacker))
        b2 == [b EXCEPT !.squares = SetSquare(@, r, c, victim),
                        !.currentPlayer = attacker,
                        !.enPassantTarget = NoSquare]
    IN  \E m \in SeqToSet(generatePseudoLegalMoves(b2)) : m.to = Position(r, c)

\* the king of the colour stands on a square an enemy piece captures on
inCheck(b, color) ==
    LET kp == findKing(b, color)
    IN  kp.row # -1 /\ capturesOn(b, kp.row, kp.col, opposite(color))

\* C1 (Reversibility), as claimed: after every apply of a legal move,
\* undoMove gives back the board, the side to move, the castling rights, the
\* en passant target and both clocks of the position the move was applied to
\* (and the history stack as it was).
C1_Reversible ==
    [][ApplyStep =>
         LET back == undoMove([board |-> board', hist |-> historyStack'], lastMove')
         IN  back.board = board /\ back.hist = historyStack]_vars

\* C2 (No self-check), as claimed: in every position reached from the
\* default start by legal moves, no piece of the side to move could capture
\* on the square of the king of the side that just moved.
C2_NoSelfCheck == ~inCheck(board, opposite(board.currentPlayer))

\* C3 (King uniqueness), as claimed: no legal move lands on a king, and each
\* colour has exactly one king.
C3_NoKingCapture ==
    /\ \A m \in legalNow : board.squares[m.to.row][m.to.col].type # KING
    /\ Cardinality(kingSquares(board.squares, WHITE)) = 1
    /\ Cardinality(kingSquares(board.squares, BLACK)) = 1

\* C4 (Halfmove clock), as claimed: after an apply the clock is 0 if the
\* move was a pawn move, a capture, castling, a promotion or a king move,
\* and the old clock plus one otherwise.
C4_HalfmoveClock ==
    [][ApplyStep =>
         LET m == lastMove'
             moving == board.squares[m.from.row][m.from.col]
             resets == \/ moving.type = PAWN
                       \/ board.squares[m.to.row][m.to.col].type # EMPTY
                       \/ m.flag \in castleFlags \cup {MOVE_PROMOTION, MOVE_EN_PASSANT}
                       \/ moving.type = KING
         IN  board'.halfmoveClock = IF resets THEN 0 ELSE board.halfmoveClock + 1]_vars

\* C5 (Turn alternation): every apply hands the move to the other colour,
\* and adds one to the fullmove number exactly when Black moved.
C5_TurnAlternation ==
    [][ApplyStep =>
         /\ board.currentPlayer \in {WHITE, BLACK}
         /\ board'.currentPlayer \in {WHITE, BLACK}
         /\ board'.currentPlayer # board.currentPlayer
         /\ board'.fullmoveNumber =
               board.fullmoveNumber + (IF board.currentPlayer = BLACK THEN 1 ELSE 0)]_vars

\* C5's case: White and then Black have moved, and the fullmove number has
\* gone up by one
C5_Witness_BlackMoved ==
    /\ Len(historyStack) = 2
    /\ historyStack[1].prevPlayer = WHITE
    /\ historyStack[2].prevPlayer = BLACK
    /\ board.currentPlayer = WHITE
    /\ board.fullmoveNumber = historyStack[1].prevFullmoveNumber + 1

\* C6, as claimed: isSquareAttacked answers true exactly for the squares on
\* which a piece of the attacker's colour could capture.
C6_AttackedIffCapturable ==
    \A r \in 0..7, c \in 0..7, attacker \in {WHITE, BLACK} :
        isSquareAttacked(board, r, c, attacker) <=> capturesOn(board, r, c, attacker)

\* the castle move of the side to move toward column toCol
castleMove(b, toCol) ==
    Move(Position(IF b.currentPlayer = WHITE THEN 7 ELSE 0, 4),
         Position(IF b.currentPlayer = WHITE THEN 7 ELSE 0, toCol), EMPTY,
         IF toCol = 6 THEN MOVE_CASTLE_KING ELSE MOVE_CASTLE_QUEEN)

\* C7, as claimed: a castle is legal exactly when its right is set, the
\* squares between king and rook are empty, the side to move is not in check
\* and no enemy piece, pawns included, attacks a square the king crosses.
C7_CastleIff ==
    LET player == board.currentPlayer
        row == IF player = WHITE THEN 7 ELSE 0
        sq == board.squares
        kRight == IF player = WHITE THEN board.castling.wk ELSE board.castling.bk
        qRight == IF player = WHITE THEN board.castling.wq ELSE board.castling.bq
        free(c) == ~capturesOn(board, row, c, opposite(player))
    IN  /\ castleMove(board, 6) \in legalNow <=>
              /\ kRight # 0
              /\ sq[row][5].type = EMPTY /\ sq[row][6].type = EMPTY
              /\ ~inCheck(board, player)
              /\ free(5) /\ free(6)
        /\ castleMove(board, 2) \in legalNow <=>
              /\ qRight # 0
              /\ sq[row][1].type = EMPTY /\ sq[row][2].type = EMPTY /\ sq[row][3].type = EMPTY
              /\ ~inCheck(board, player)
              /\ free(2) /\ free(3)

\* C8, as claimed: a castle-flagged move is in the legal list only when the
\* king of the side to move stands on its home square.
C8_CastleOnlyFromHome ==
    \A m \in legalNow :
        m.flag \in castleFlags =>
            board.squares[IF board.currentPlayer = WHITE THEN 7 ELSE 0][4]
                = Piece(KING, board.currentPlayer)

\* a is a subset of the rights b
rightsWithin(a, b) == a.wk <= b.wk /\ a.wq <= b.wq /\ a.bk <= b.bk /\ a.bq <= b.bq

\* C9 (Castling rights monotonicity): along a line of applied moves every
\* position's rights are a subset of the rights of the position before it,
\* so the current rights are a subset of the rights R the line started from.
C9_RightsMonotone ==
    /\ \A i \in 1..Len(historyStack) :
          rightsWithin(IF i = Len(historyStack) THEN board.castling
                       ELSE historyStack[i + 1].prevCastling,
                       historyStack[i].prevCastling)
    /\ Len(historyStack) > 0 => rightsWithin(board.castling, historyStack[1].prevCastling)

\* C9's case: a line of two applies that started with all four rights has
\* lost both rights of each side
C9_Witness_RightsLost ==
    /\ Len(historyStack) = 2
    /\ historyStack[1].prevCastling = CastlingRights(1, 1, 1, 1)
    /\ board.castling = CastlingRights(0, 0, 0, 0)

\* C10 (Search null move): findBestMove returns a move whose from.row is -1
\* exactly when the side to move has no legal move, and otherwise a move of
\* the legal list.
C10_BestMoveLegal ==
    LET bm == findBestMove(St)
        legal == generateAllLegalMoves(St)
    IN  /\ (bm.from.row = -1) <=> (Len(legal) = 0)
        /\ Len(legal) > 0 => bm \in SeqToSet(legal)

\* C10's cases: findBestMove has chosen a move of Black's legal list, the
\* game loop has made it, and it leaves White without a legal move, where
\* findBestMove returns the null move
C10_Witness_NullAfterEngineMove ==
    /\ Len(historyStack) >= 1
    /\ board.currentPlayer = WHITE
    /\ Len(generateAllLegalMoves(St)) = 0
    /\ findBestMove(St).from.row = -1

\* the legal moves of the side to move after which the opponent is in check
\* and has no legal move
matingMoves(S) ==
    {m \in SeqToSet(generateAllLegalMoves(S)) :
        /\ inCheck(makeMove(S, m).board, opposite(S.board.currentPlayer))
        /\ Len(generateAllLegalMoves(makeMove(S, m))) = 0}

\* C11 (Mate in one), as claimed: whenever the side to move has a mating
\* move, findBestMove returns a mating move and the value it found for it at
\* the root is MATE_VALUE - 1, whatever the halfmove clock is.
C11_MateInOne ==
    matingMoves(St) # {} =>
        /\ findBestMoveRun(St).move \in matingMoves(St)
        /\ findBestMoveRun(St).bestVal = MATE_VALUE - 1

\* C12 (En passant apply): an apply of an en passant move puts the capturing
\* pawn on the en passant target square, empties the square it came from,
\* removes the opposing pawn behind the target (row to.row + 1 for a White
\* capturer, to.row - 1 for a Black one), leaves every other square as it
\* was, clears the en passant target and sets the halfmove clock to 0.
C12_EnPassantApply ==
    [][(ApplyStep /\ lastMove'.flag = MOVE_EN_PASSANT) =>
         LET m == lastMove'
             mover == board.currentPlayer
             capRow == IF mover = WHITE THEN m.to.row + 1 ELSE m.to.row - 1
         IN  /\ m.to = board.enPassantTarget
             /\ board.squares[m.from.row][m.from.col] = Piece(PAWN, mover)
             /\ board.squares[capRow][m.to.col] = Piece(PAWN, opposite(mover))
             /\ board'.squares[m.to.row][m.to.col] = Piece(PAWN, mover)
             /\ board'.squares[m.from.row][m.from.col] = NoPiece
             /\ board'.squares[capRow][m.to.col] = NoPiece
             /\ \A r \in 0..7, c \in 0..7 :
                   Position(r, c) \notin {m.to, m.from, Position(capRow, m.to.col)}
                       => board'.squares[r][c] = board.squares[r][c]
             /\ board'.enPassantTarget = NoSquare
             /\ board'.halfmoveClock = 0]_vars

\* C12's case: White advanced a pawn two squares and Black captured it en
\* passant
C12_Witness_BlackCaptured ==
    /\ Len(historyStack) = 2
    /\ lastMove.flag = MOVE_EN_PASSANT
    /\ historyStack[2].prevPlayer = BLACK
    /\ historyStack[2].captured = Piece(PAWN, WHITE)
    /\ historyStack[2].prevEnPassant = lastMove.to
    /\ board.halfmoveClock = 0

\* e2e4 as the generator lists it
e2e4 == Move(Position(6, 4), Position(4, 4), EMPTY, MOVE_NORMAL)

\* C13 (Start position): the default start has exactly 20 legal moves, e2e4
\* among them; after the apply of e2e4 Black is to move, the en passant
\* target is (5,4), the halfmove clock is 0, the fullmove number is 1 and
\* Black has exactly 20 legal moves; the revert gives back the default
\* start.
C13_StartPosition ==
    /\ historyStack = <<>> =>
          /\ board = defaultStart
          /\ Len(generateAllLegalMoves(St)) = 20
          /\ Cardinality(legalNow) = 20
          /\ e2e4 \in legalNow
    /\ (Len(historyStack) = 1 /\ lastMove = e2e4) =>
          /\ board.currentPlayer = BLACK
          /\ board.enPassantTarget = Position(5, 4)
          /\ board.halfmoveClock = 0
          /\ board.fullmoveNumber = 1
          /\ Len(generateAllLegalMoves(St)) = 20
          /\ Cardinality(legalNow) = 20
          /\ undoMove(St, e2e4).board = defaultStart
          /\ undoMove(St, e2e4).hist = <<>>

\* C13's case: e2e4 has been applied to the default start
C13_Witness_AfterE2E4 ==
    /\ Len(historyStack) = 1
    /\ lastMove = e2e4
    /\ historyStack[1].prevPlayer = WHITE
    /\ board.squares[4][4] = Piece(PAWN, WHITE)
    /\ board.squares[6][4] = NoPiece

\* C14: the history stack holds one record per applied and not yet reverted
\* move, never more than MAX_HISTORY; applying a move pushes exactly one
\* record and reverting it pops exactly one, and the revert that follows an
\* apply restores the position the apply started from, also when
\* MAX_HISTORY records are outstanding.
C14_HistoryDiscipline ==
    /\ Len(historyStack) <= MAX_HISTORY
    /\ \A m \in legalNow :
          /\ Len(makeMove(St, m).hist) = Len(historyStack) + 1
          /\ undoMove(makeMove(St, m), m).hist = historyStack
          /\ undoMove(makeMove(St, m), m).board = board

\* C15: findBestMove and generateAllLegalMoves return with the position
\* identical to its value on entry and the history stack at the depth it had
\* on entry: every makeMove of the legality filter, negamax and quiescence
\* is matched by an undoMove before the function returns.
C15_SearchLeavesPosition ==
    /\ generateAllLegalMovesRun(St).state.board = board
    /\ Len(generateAllLegalMovesRun(St).state.hist) = Len(historyStack)
    /\ findBestMoveRun(St).state.board = board
    /\ Len(findBestMoveRun(St).state.hist) = Len(historyStack)

\* the token has a wrong length or a character that is no file or no rank
unparseable(s) ==
    \/ Len(s) \notin {4, 5}
    \/ s[1] \notin CharA..(CharA + 7)
    \/ s[3] \notin CharA..(CharA + 7)
    \/ s[2] \notin (Char0 + 1)..Char8
    \/ s[4] \notin (Char0 + 1)..Char8

\* the token names the move m: its squares, and with a fifth character the
\* promotion to that piece
namesMove(s, m) ==
    /\ SubSeq(s, 1, 4) = coordText(m)
    /\ Len(s) = 5 =>
          /\ m.flag = MOVE_PROMOTION
          /\ tolower(s[5]) = promotionLetter(m.promotion)

\* C16: when White's token is unparseable (wrong length, bad file or rank
\* characters) or names no legal move, the loop applies no move: the board,
\* the side to move, the rights, the en passant target, the clocks and the
\* history stack are what they were, and it is still White's turn.
C16_RejectedInputUnchanged ==
    board.currentPlayer = WHITE =>
        \A s \in userInputs(St) :
            (unparseable(s) \/ ~\E m \in legalNow : namesMove(s, m)) =>
                /\ userTurn(St, s) = St
                /\ userTurn(St, s).board.currentPlayer = WHITE

\* C17: for a promoting pawn move of the legal list, the four characters of
\* its squares resolve to the legal move promoting to the queen, and with a
\* fifth character q, r, b or n in either case to the legal move promoting
\* to that piece; whatever is typed, a resolved move is an element of the
\* legal list, with the flag the engine gave it.
C17_PromotionDefault ==
    board.currentPlayer = WHITE =>
        /\ \A m \in {x \in legalNow : x.flag = MOVE_PROMOTION} :
              /\ resolveMove(St, parseMove(coordText(m))).found
              /\ resolveMove(St, parseMove(coordText(m))).move
                     = Move(m.from, m.to, QUEEN, MOVE_PROMOTION)
              /\ \A c \in {promotionLetter(m.promotion), promotionLetter(m.promotion) - 32} :
                    /\ resolveMove(St, parseMove(coordText(m) \o <<c>>)).found
                    /\ resolveMove(St, parseMove(coordText(m) \o <<c>>)).move = m
        /\ \A s \in userInputs(St) :
              resolveMove(St, parseMove(s)).found
                  => resolveMove(St, parseMove(s)).move \in legalNow

\* the user has promoted the a-pawn to a knight
C17_Witness_KnightTyped ==
    /\ Len(historyStack) >= 1
    /\ lastMove = Move(Position(1, 0), Position(0, 0), KNIGHT, MOVE_PROMOTION)
    /\ historyStack[Len(historyStack)].prevPlayer = WHITE
    /\ board.squares[0][0] = Piece(KNIGHT, WHITE)

\* the moves of the legal list with the squares of m
sameSquares(m) ==
    SelectSeq(generateAllLegalMoves(St), LAMBDA x : x.from = m.from /\ x.to = m.to)

\* C18: every move of the legal list has a promotion piece exactly when its
\* flag is MOVE_PROMOTION; a pawn move to the mover's promotion row, by push
\* or by capture, is in the list as exactly four MOVE_PROMOTION moves, one
\* each for queen, rook, bishop and knight, and never as MOVE_NORMAL; and
\* makeMove of it puts a piece of the chosen kind and of the mover's colour
\* on the destination.
C18_PromotionMoves ==
    \A m \in legalNow :
        /\ m.promotion # EMPTY <=> m.flag = MOVE_PROMOTION
        /\ (/\ board.squares[m.from.row][m.from.col].type = PAWN
            /\ m.to.row = (IF board.currentPlayer = WHITE THEN 0 ELSE 7))
           => /\ m.flag = MOVE_PROMOTION
              /\ Len(sameSquares(m)) = 4
              /\ {x.promotion : x \in SeqToSet(sameSquares(m))} = {QUEEN, ROOK, BISHOP, KNIGHT}
              /\ \A x \in SeqToSet(sameSquares(m)) : x.flag = MOVE_PROMOTION
              /\ makeMove(St, m).board.squares[m.to.row][m.to.col]
                     = Piece(m.promotion, board.currentPlayer)

\* Black has pushed the h-pawn to h1 and taken a bishop for it
C18_Witness_BlackBishop ==
    /\ Len(historyStack) = 2
    /\ lastMove = Move(Position(6, 7), Position(7, 7), BISHOP, MOVE_PROMOTION)
    /\ historyStack[2].prevPlayer = BLACK
    /\ board.squares[7][7] = Piece(BISHOP, BLACK)
    /\ board.squares[6][7] = NoPiece

\* C19: saveBoardToFile followed by loadBoardFromFile succeeds and gives
\* back the position: all 64 squares, the side to move, the four castling
\* rights, the en passant target (also one that is set, such as e3), the
\* halfmove clock and the fullmove number, for every position the game loop
\* reaches and whatever the loaded BoardState held before.
C19_SaveLoadRoundTrip ==
    \A memory \in Memory :
        /\ loadBoardFromFile(saveBoardToFile(board), memory).ok
        /\ loadBoardFromFile(saveBoardToFile(board), memory).board = board

\* the load of the file has to fail: the file is missing, one of its eight
\* board rows has fewer than 8 characters, or one of its 13 lines is missing
mustFail(file) ==
    \/ ~file.present
    \/ Len(file.lines) < 13
    \/ \E r \in 1..8 : Len(SelectSeq(file.lines[r], LAMBDA ch : ch # "\n")) < 8

\* C20: when the load of board.txt fails (file missing, a board row shorter
\* than 8 characters, a required line missing) the game starts from exactly
\* the default starting position: nothing the failed load wrote into the
\* BoardState is left in the squares, the side to move, the castling
\* rights, the en passant target or the clocks.
C20_LoadFailureDefault ==
    (historyStack = <<>> /\ mustFail(boardFile)) => board = defaultStart

\* the loop of main ends at this position: it is Black's turn and
\* findBestMove returns the null move; on White's turn the loop prompts
loopEnds(S) ==
    /\ S.board.currentPlayer = BLACK
    /\ findBestMoveRun(S).move.from.row = -1

\* C21: whenever the side to move has no legal move in the game loop, the
\* loop reports the end of the game and exits: no move is applied and no
\* input is requested from then on.
C21_GameOver ==
    Len(generateAllLegalMoves(St)) = 0 => loopEnds(St)

\* the greatest element of a set of integers
SetMax(T) == CHOOSE x \in T : \A y \in T : y <= x

\* the search with no cut-off: every node is searched with the window
\* -INFINITY_SCORE..INFINITY_SCORE, so quiescence returns the greater of the
\* stand-pat value and the values of its captures, and negamax the greatest
\* value of its moves; the terminal tests, the check extension and the
\* depths are those of the search
RECURSIVE fullQuiescence(_)
fullQuiescence(S) ==
    LET e == evaluateBoard(S.board)
        stand_pat == IF S.board.currentPlayer = BLACK THEN -e ELSE e
        captures == {m \in SeqToSet(generateAllLegalMoves(S)) :
                        \/ S.board.squares[m.to.row][m.to.col].type # EMPTY
                        \/ m.flag = MOVE_EN_PASSANT}
    IN  SetMax({stand_pat} \cup {-fullQuiescence(makeMove(S, m)) : m \in captures})

RECURSIVE fullNegamax(_, _, _)
fullNegamax(S, depth0, ply) ==
    IF S.board.halfmoveClock >= 100 \/ isInsufficientMaterial(S.board) THEN 0
    ELSE LET inCheckNow == isKingInCheck(S.board, S.board.currentPlayer)
             depth == IF inCheckNow THEN depth0 + 1 ELSE depth0
             moves == SeqToSet(generateAllLegalMoves(S))
         IN  IF depth <= 0 THEN fullQuiescence(S)
             ELSE IF moves = {} THEN (IF inCheckNow THEN -MATE_VALUE + ply ELSE 0)
             ELSE SetMax({-fullNegamax(makeMove(S, m), depth - 1, ply + 1) : m \in moves})

\* the value the search with no cut-off gives the root move m
fullRootValue(S, m) == -fullNegamax(makeMove(S, m), SEARCH_DEPTH - 1, 1)

\* the first move of the search order with the greatest such value
fullBestMove(S) ==
    LET moves == scoreMoves(S.board, generateAllLegalMoves(S))
        best == SetMax({fullRootValue(S, moves[i]) : i \in 1..Len(moves)})
    IN  moves[CHOOSE i \in 1..Len(moves) :
                  /\ fullRootValue(S, moves[i]) = best
                  /\ \A j \in 1..(i - 1) : fullRootValue(S, moves[j]) # best]

\* C22: in a position with a legal move, findBestMove (alpha-beta windows,
\* quiescence, check extension, ordering) returns the first move in search
\* order whose value is the greatest that the same search without any
\* cut-off gives to the legal root moves.
C22_AlphaBetaSound ==
    Len(generateAllLegalMoves(St)) > 0 => findBestMoveRun(St).move = fullBestMove(St)

\* the engine has played a move that takes a piece, from a position in
\* which it had other moves
C22_Witness_EngineChose ==
    /\ Len(historyStack) >= 1
    /\ historyStack[Len(historyStack)].prevPlayer = BLACK
    /\ historyStack[Len(historyStack)].captured.type # EMPTY
    /\ Len(generateAllLegalMoves(undoMove(St, lastMove))) > 1

\* the moves quiescence searches: those onto an occupied square and the en
\* passant captures
captureMoves(S) ==
    {m \in SeqToSet(generateAllLegalMoves(S)) :
        \/ S.board.squares[m.to.row][m.to.col].type # EMPTY
        \/ m.flag = MOVE_EN_PASSANT}

\* every recursion of quiescence from S is on a position with one piece
\* fewer
RECURSIVE quiescenceShrinks(_)
quiescenceShrinks(S) ==
    \A m \in captureMoves(S) :
        /\ pieceCount(makeMove(S, m).board) = pieceCount(S.board) - 1
        /\ quiescenceShrinks(makeMove(S, m))

\* every descent of negamax from S ends at a node of one of the kinds
\* listed: depth 0 (where quiescence takes over and shrinks the board), no
\* legal move, halfmove clock at 100 or more, and, if kingsEnd, only kings
\* left
RECURSIVE descentEnds(_, _, _)
descentEnds(S, depth0, kingsEnd) ==
    IF S.board.halfmoveClock >= 100 THEN TRUE
    ELSE IF isInsufficientMaterial(S.board) THEN kingsEnd \/ depth0 <= 0
    ELSE IF depth0 + (IF isKingInCheck(S.board, S.board.currentPlayer) THEN 1 ELSE 0) <= 0
    THEN quiescenceShrinks(S)
    ELSE \A m \in SeqToSet(generateAllLegalMoves(S)) :
            descentEnds(makeMove(S, m),
                        depth0 + (IF isKingInCheck(S.board, S.board.currentPlayer) THEN 1 ELSE 0) - 1,
                        kingsEnd)

appliedMove == historyStack'[Len(historyStack')].move

\* the apply of this step takes the right of the owner whose rook stands on
\* (row, col) at home: its king moves, its rook leaves the corner, or its
\* rook is captured on the corner
rightLost(owner, row, col) ==
    LET moving == board.squares[appliedMove.from.row][appliedMove.from.col]
        victim == board.squares[appliedMove.to.row][appliedMove.to.col]
    IN  \/ moving.type = KING /\ moving.color = owner
        \/ appliedMove.flag \in castleFlags /\ board.currentPlayer = owner
        \/ moving.type = ROOK /\ moving.color = owner
              /\ appliedMove.from = Position(row, col)
        \/ victim.type = ROOK /\ victim.color = owner
              /\ appliedMove.to = Position(row, col)

\* C24, as claimed: an apply clears both rights of the mover when the moved piece is a king (castling included), the matching
\* right when a rook leaves its own home corner, the owner's matching right
\* when a rook is captured on its home corner (also by a capturing
\* promotion), and leaves every other right at its value before the move.
C24_ExactRights ==
    [][ApplyStep =>
         board'.castling =
           [wk |-> IF rightLost(WHITE, 7, 7) THEN 0 ELSE board.castling.wk,
            wq |-> IF rightLost(WHITE, 7, 0) THEN 0 ELSE board.castling.wq,
            bk |-> IF rightLost(BLACK, 0, 7) THEN 0 ELSE board.castling.bk,
            bq |-> IF rightLost(BLACK, 0, 0) THEN 0 ELSE board.castling.bq]]_vars

\* the king and the rook of a right stand on their home squares
atHome(b, color, rookCol) ==
    LET row == IF color = WHITE THEN 7 ELSE 0
    IN  /\ b.squares[row][4] = Piece(KING, color)
        /\ b.squares[row][rookCol] = Piece(ROOK, color)

\* C25, as claimed: in every position reached from the default starting
\* position by applies of legal moves a castling right is true only if its
\* king and its rook stand on their home squares, so every generated castle
\* moves a king and a rook of the mover.
C25_RightsNeedHome ==
    /\ board.castling.wk = 1 => atHome(board, WHITE, 7)
    /\ board.castling.wq = 1 => atHome(board, WHITE, 0)
    /\ board.castling.bk = 1 => atHome(board, BLACK, 7)
    /\ board.castling.bq = 1 => atHome(board, BLACK, 0)
    /\ \A m \in legalNow :
          m.flag \in castleFlags =>
            atHome(board, board.currentPlayer,
                   IF m.flag = MOVE_CASTLE_KING THEN 7 ELSE 0)

\* the newest apply was a pawn advance of two squares
lastWasDoubleAdvance ==
    /\ Len(historyStack) >= 1
    /\ lastMove.flag = MOVE_NORMAL
    /\ lastMove.from.col = lastMove.to.col
    /\ abs(lastMove.to.row - lastMove.from.row) = 2
    /\ board.squares[lastMove.to.row][lastMove.to.col]
          = Piece(PAWN, historyStack[Len(historyStack)].prevPlayer)

\* C26 (En passant target lifetime): in every position reached from the
\* default starting position by applies of legal moves the en passant target
\* is non-null exactly when the newest apply was a pawn advance of two
\* squares; it is then the square the pawn skipped, it is empty, it lies on
\* row 5 when Black is to move and on row 2 when White is to move; an apply
\* of any other move leaves it null.
C26_EnPassantLifetime ==
    /\ (board.enPassantTarget # NoSquare) <=> lastWasDoubleAdvance
    /\ lastWasDoubleAdvance =>
          /\ board.enPassantTarget
                = Position((lastMove.from.row + lastMove.to.row) \div 2, lastMove.from.col)
          /\ board.squares[board.enPassantTarget.row][board.enPassantTarget.col] = NoPiece
          /\ board.currentPlayer = BLACK => board.enPassantTarget.row = 5
          /\ board.currentPlayer = WHITE => board.enPassantTarget.row = 2

\* C26's case: the move after a double advance was a move of another kind
\* and the target is null again
C26_Witness_TargetCleared ==
    /\ Len(historyStack) >= 2
    /\ historyStack[Len(historyStack)].prevEnPassant # NoSquare
    /\ ~lastWasDoubleAdvance
    /\ board.enPassantTarget = NoSquare

\* the squares after the mover's king went from the e-file to kingTo and its
\* rook from the corner rookFrom to rookTo on the home row, all else as it was
castledSquares(b, kingTo, rookFrom, rookTo) ==
    LET mover == b.currentPlayer
        row == IF mover = WHITE THEN 7 ELSE 0
    IN  [r \in 0..7 |-> [c \in 0..7 |->
           IF r = row /\ c \in {4, rookFrom} THEN NoPiece
           ELSE IF r = row /\ c = kingTo THEN Piece(KING, mover)
           ELSE IF r = row /\ c = rookTo THEN Piece(ROOK, mover)
           ELSE b.squares[r][c]]]

\* C27, as claimed: applying a castle of the legal moves takes the mover's
\* king from the e-file to the g-file (c-file) and the rook from the h-file
\* (a-file) corner to the f-file (d-file) of the home row and changes no
\* other square, clears both rights of the mover and none of the opponent,
\* clears the en passant target and sets the halfmove clock to 0; reverting
\* it puts king and rook back on the e-file and the corner.
C27_CastleApply ==
    [][ApplyStep /\ appliedMove.flag \in castleFlags =>
         LET mover == board.currentPlayer
             row == IF mover = WHITE THEN 7 ELSE 0
             kingSide == appliedMove.flag = MOVE_CASTLE_KING
             rookFrom == IF kingSide THEN 7 ELSE 0
             back == undoMove([board |-> board', hist |-> historyStack'], appliedMove)
         IN  /\ board.squares[row][4] = Piece(KING, mover)
             /\ board.squares[row][rookFrom] = Piece(ROOK, mover)
             /\ board'.squares
                   = castledSquares(board, IF kingSide THEN 6 ELSE 2, rookFrom,
                                    IF kingSide THEN 5 ELSE 3)
             /\ board'.castling
                   = IF mover = WHITE
                     THEN [board.castling EXCEPT !.wk = 0, !.wq = 0]
                     ELSE [board.castling EXCEPT !.bk = 0, !.bq = 0]
             /\ board'.enPassantTarget = NoSquare
             /\ board'.halfmoveClock = 0
             /\ back.board.squares[row][4] = Piece(KING, mover)
             /\ back.board.squares[row][rookFrom] = Piece(ROOK, mover)
             /\ back.board.squares = board.squares]_vars

\* what negamax returns for the present position as a node of the search
\* with the full window
nodeValue(depth0, ply) ==
    negamax(St, depth0, -INFINITY_SCORE, INFINITY_SCORE, ply).val

\* C28, as claimed: a node of negamax returns 0 when the halfmove clock is
\* 100 or more or only kings remain, whatever else holds of it; otherwise a
\* node whose side to move has no legal move returns -MATE_VALUE + ply if that
\* side is in check and 0 if it is not, so that of two checkmates the one
\* found at the smaller ply is worth strictly more to the mating side.
C28_TerminalScores ==
    \A depth0 \in 0..(SEARCH_DEPTH - 1), ply \in 1..SEARCH_DEPTH :
        IF board.halfmoveClock >= 100 \/ isInsufficientMaterial(board)
        THEN nodeValue(depth0, ply) = 0
        ELSE Len(generateAllLegalMoves(St)) = 0 =>
               /\ nodeValue(depth0, ply)
                     = IF inCheck(board, board.currentPlayer)
                       THEN -MATE_VALUE + ply ELSE 0
               /\ inCheck(board, board.currentPlayer) =>
                     -nodeValue(depth0, ply) > -nodeValue(depth0, ply + 1)

\* the score the ordering is claimed to go by
orderingScore(b, m) ==
    IF b.squares[m.to.row][m.to.col].type # EMPTY
    THEN 10000 + orderingValue(b.squares[m.to.row][m.to.col].type)
               - (orderingValue(b.squares[m.from.row][m.from.col].type) \div 10)
    ELSE IF m.flag = MOVE_PROMOTION THEN 9000
    ELSE 0

\* the place of a move in a list of distinct moves
placeIn(list, m) == CHOOSE k \in 1..Len(list) : list[k] = m

\* C29 (Move ordering): scoreMoves turns the legal move list into a
\* permutation of itself in non-increasing order of score, moves of equal
\* score staying in the order they were generated in; the score is 10000 +
\* victim value - (attacker value \div 10) for a move onto an occupied square,
\* 9000 for a promotion onto an empty square and 0 for every other move, en
\* passant included.
C29_MoveOrdering ==
    LET list == generateAllLegalMoves(St)
        sorted == scoreMoves(board, list)
    IN  /\ Len(sorted) = Len(list)
        /\ SeqToSet(sorted) = SeqToSet(list)
        /\ \A i, j \in 1..Len(sorted) :
              i < j =>
                /\ orderingScore(board, sorted[i]) >= orderingScore(board, sorted[j])
                /\ orderingScore(board, sorted[i]) = orderingScore(board, sorted[j])
                      => placeIn(list, sorted[i]) < placeIn(list, sorted[j])
        /\ \A m \in SeqToSet(list) : m.flag = MOVE_EN_PASSANT => orderingScore(board, m) = 0

\* C29's case: the sort moved a capture to the front of the list, and two
\* moves that are captures or promotions share a score
C29_Witness_Reordered ==
    LET list == generateAllLegalMoves(St)
        sorted == scoreMoves(board, list)
    IN  /\ sorted # list
        /\ orderingScore(board, sorted[1]) > 10000
        /\ \E i, j \in 1..Len(list) :
              /\ i < j
              /\ orderingScore(board, list[i]) = orderingScore(board, list[j])
              /\ orderingScore(board, list[i]) >= 9000

\* C30, as claimed: whenever the game loop changes the position, it does so
\* by one apply of a legal move of the position at that moment - on White's
\* turn a move resolveMove matched to a typed token, on Black's turn the
\* move findBestMove returned - so the side to move alternates, and nothing
\* else changes the position or the history stack.
C30_OnlyLegalApplies ==
    [][(board' # board \/ historyStack' # historyStack) =>
         /\ board'.currentPlayer = opposite(board.currentPlayer)
         /\ \E m \in legalNow :
               /\ board' = makeMove(St, m).board
               /\ historyStack' = makeMove(St, m).hist
               /\ board.currentPlayer = BLACK => m = findBestMove(St)
               /\ board.currentPlayer = WHITE =>
                     \E input \in userInputs(St) :
                        /\ resolveMove(St, parseMove(input)).found
                        /\ resolveMove(St, parseMove(input)).move = m]_vars

====
